---------------------------- MODULE Spec2Model ----------------------------
(***************************************************************************)
(* Verification model of the vectoris WebAssembly DSL:                     *)
(*   - the IR node model and its builders        (src/src/dsl/ast.ts)      *)
(*   - the optimizer passes                      (src/src/dsl/optimizer.ts)*)
(*   - the auto-vectorizer                       (src/unnamed/part_000)    *)
(*   - the binary emitter                        (src/src/dsl/optimizer.ts)*)
(*                                                                         *)
(* An IR node is a record with one field per optional field of BaseNode.   *)
(* An absent string is "", an absent number is 0 where the code reads it   *)
(* with `x || 0`, an absent array is << >>.  const values are kept in a    *)
(* sequence (<< >> absent, <<v>> present).                                 *)
(***************************************************************************)
EXTENDS Integers, Sequences, FiniteSets, TLC

VARIABLES
    \* optimizer runs: optimize(node, {level, unrollFactor}) applied twice
    optIn, optLevel, optFactor, optOut, optOut2, optPc,
    \* execution of a counted loop and of its unrolled form
    lpOrig, lpUnrolled, lpFactor, lpStart, lpPhase, lpRun, lpOrigRun,
    \* emitBinary(module)
    emIn, emOut, emPc,
    \* autoVectorize(func, {targetType})
    vecIn, vecType, vecSimd, vecOut, vecPc,
    \* one call of a pure function: its arguments, its result, its position
    fnIn, fnOut, fnPc,
    \* WorkerPool.exec: task size, chunk size, the shared cursor, the workers,
    \* the calls of the kernel function made so far, the state of the promise
    poolTotal, poolChunk, cursor, workers, poolCalls, poolPc,
    \* MainThreadExecutor.scheduleExecution
    exTotal, exOptions, current, exStep, currentSliceLimit, sliceDuration,
    exCalls, exPc,
    \* compileWasm: the module cache, the calls awaiting WebAssembly.compile,
    \* the modules returned so far
    wasmModuleCache, ccPending, ccReturned,
    \* WorkerPool.exec called repeatedly on one pool: the pool's lastModuleId,
    \* the state of each worker, its inst/mem/func, the shared cursor, the
    \* exec calls made, the functions run, the position of the current call
    lastModuleId, wkSlots, wkInst, syncView, hxExecs, hxRan, hxPc,
    \* MainThreadExecutor with run() and abort() called while runs are in
    \* progress: the executor's options and flag, the runs, the run that has
    \* the thread, and the MessageChannel of yieldToMain
    abOptions, isAborted, abRuns, abActive, hasChannel, onmessage, portQueue

optVars == <<optIn, optLevel, optFactor, optOut, optOut2, optPc>>
lpVars  == <<lpOrig, lpUnrolled, lpFactor, lpStart, lpPhase, lpRun, lpOrigRun>>
emVars  == <<emIn, emOut, emPc>>
vecVars == <<vecIn, vecType, vecSimd, vecOut, vecPc>>
fnVars  == <<fnIn, fnOut, fnPc>>
poolVars == <<poolTotal, poolChunk, cursor, workers, poolCalls, poolPc>>
exVars  == <<exTotal, exOptions, current, exStep, currentSliceLimit, sliceDuration,
             exCalls, exPc>>
dslVars == <<optVars, lpVars, emVars, vecVars>>
cacheVars == <<wasmModuleCache, ccPending, ccReturned>>
hotVars == <<lastModuleId, wkSlots, wkInst, syncView, hxExecs, hxRan, hxPc>>
abVars == <<abOptions, isAborted, abRuns, abActive, hasChannel, onmessage, portQueue>>
extVars == <<cacheVars, hotVars, abVars>>
vars    == <<optVars, lpVars, emVars, vecVars, fnVars, poolVars, exVars, extVars>>

-----------------------------------------------------------------------------
(* Bounds of the model *)

\* const payloads of generated optimizer inputs range over 0..MaxVal
MaxVal == 2
\* longest generated loop body (statements between the exit test and the increment)
MaxBody == 2
\* largest explicit unrollFactor tried (0 stands for "not given")
MaxFactor == 4
\* executed loops: bound N of the exit test in 0..MaxN, step in 1..MaxStep,
\* start value of i in 0..MaxStart, body of at most LpMaxBody stores
MaxN == 4
MaxStep == 2
MaxStart == 1
LpMaxBody == 1

-----------------------------------------------------------------------------
(* IR nodes: src/src/dsl/ast.ts *)

Blank ==
    [type |-> "", op |-> "", name |-> "", value |-> << >>, valueType |-> "",
     offset |-> 0, align |-> 0, labels |-> << >>,
     children |-> << >>, consequent |-> << >>, alternate |-> << >>,
     params |-> << >>, results |-> << >>, locals |-> << >>,
     moduleName |-> "", fieldName |-> "", descKind |-> "",
     limits |-> [min |-> 0, max |-> << >>, shared |-> FALSE]]

module(name, children) ==
    [Blank EXCEPT !.type = "module", !.name = name, !.children = children]

func(name, params, results, locals, body) ==
    [Blank EXCEPT !.type = "func", !.name = name, !.params = params,
                  !.results = results, !.locals = locals, !.children = body]

\* limits = [min, max (<< >> when absent), shared]
importMemory(moduleName, fieldName, limits) ==
    [Blank EXCEPT !.type = "import", !.moduleName = moduleName,
                  !.fieldName = fieldName, !.descKind = "memory", !.limits = limits]

exportFunc(name) == [Blank EXCEPT !.type = "export", !.name = name]

param(name, valueType) == [Blank EXCEPT !.type = "param", !.name = name, !.valueType = valueType]
result(valueType)      == [Blank EXCEPT !.type = "result", !.valueType = valueType]
local(name, valueType) == [Blank EXCEPT !.type = "local", !.name = name, !.valueType = valueType]

block(label, children) ==
    [Blank EXCEPT !.type = "block", !.name = label, !.children = children, !.valueType = "void"]
loop(label, children) ==
    [Blank EXCEPT !.type = "loop", !.name = label, !.children = children, !.valueType = "void"]
ifNode(test, thenBranch, elseBranch) ==
    [Blank EXCEPT !.type = "if", !.children = <<test>>, !.consequent = thenBranch,
                  !.alternate = elseBranch, !.valueType = "void"]
br(label) == [Blank EXCEPT !.type = "br", !.name = label, !.labels = <<label>>]
brIf(label, condition) ==
    [Blank EXCEPT !.type = "br_if", !.name = label, !.children = <<condition>>, !.labels = <<label>>]
brTable(labels, defaultLabel, index) ==
    [Blank EXCEPT !.type = "br_table", !.labels = labels, !.name = defaultLabel, !.children = <<index>>]
call(name, args) == [Blank EXCEPT !.type = "call", !.name = name, !.children = args]
callIndirect(typeIdx, tableIdx, args, targetIdx) ==
    [Blank EXCEPT !.type = "call_indirect", !.value = <<typeIdx>>, !.offset = tableIdx,
                  !.children = args \o <<targetIdx>>]
returnNode(children) == [Blank EXCEPT !.type = "return", !.children = children]
unreachable == [Blank EXCEPT !.type = "unreachable"]
nop == [Blank EXCEPT !.type = "nop"]
drop(value) == [Blank EXCEPT !.type = "drop", !.children = <<value>>]
select(condition, trueVal, falseVal) ==
    [Blank EXCEPT !.type = "select", !.children = <<trueVal, falseVal, condition>>]

constVal(valueType, v) == [Blank EXCEPT !.type = "const", !.valueType = valueType, !.value = <<v>>]
i32Const(v) == constVal("i32", v)
i64Const(v) == constVal("i64", v)
f32Const(v) == constVal("f32", v)
f64Const(v) == constVal("f64", v)

localGet(name) == [Blank EXCEPT !.type = "local.get", !.name = name]
localSet(name, value) == [Blank EXCEPT !.type = "local.set", !.name = name, !.children = <<value>>]
localTee(name, value) == [Blank EXCEPT !.type = "local.tee", !.name = name, !.children = <<value>>]
globalGet(name) == [Blank EXCEPT !.type = "global.get", !.name = name]
globalSet(name, value) == [Blank EXCEPT !.type = "global.set", !.name = name, !.children = <<value>>]

memOp(type, offset, align, children) ==
    [Blank EXCEPT !.type = type, !.offset = offset, !.align = align, !.children = children]

bin(op, l, r) == [Blank EXCEPT !.type = "binop", !.op = op, !.children = <<l, r>>]
un(op, v)     == [Blank EXCEPT !.type = "unop", !.op = op, !.children = <<v>>]


-----------------------------------------------------------------------------
(* Optimizer: src/src/dsl/optimizer.ts *)

MAX_PASSES == 10

\* node.op || node.type
OpOf(node) == IF node.op # "" THEN node.op ELSE node.type

\* Number(node.value) of a const node
NumberOf(node) == node.value[1]

\* 32-bit two's-complement wrap of x (Math.imul, | 0, <<, >>).  Every value the
\* checker can represent already lies in [-2^31, 2^31), where the wrap changes nothing.
ToInt32(x) == x

RECURSIVE Pow2(_)
Pow2(n) == IF n = 0 THEN 1 ELSE 2 * Pow2(n - 1)

\* (lVal / rVal) | 0 : division truncated toward zero
TruncDiv(l, r) ==
    LET al == IF l < 0 THEN -l ELSE l
        ar == IF r < 0 THEN -r ELSE r
        q  == al \div ar
    IN  IF (l < 0) = (r < 0) THEN q ELSE -q

\* lVal >> rVal : arithmetic shift, the count taken modulo 32
ShrS(l, r) == ToInt32(l) \div Pow2(r % 32)

\* f32.div on the modelled (integer-valued) floats: exact quotients stay
\* integer-valued; any other quotient is kept as the pair <<l, r>>.
F32DivConst(l, r) ==
    IF r # 0 /\ l % (IF r < 0 THEN -r ELSE r) = 0
    THEN f32Const(TruncDiv(l, r))
    ELSE [Blank EXCEPT !.type = "const", !.valueType = "f32", !.value = <<l, r>>]

constantFoldingPass(node) ==
    IF Len(node.children) = 0 THEN node
    ELSE IF Len(node.children) = 2
              /\ node.children[1].type = "const" /\ node.children[2].type = "const"
    THEN LET lVal == NumberOf(node.children[1])
             rVal == NumberOf(node.children[2])
             op   == OpOf(node)
         IN  CASE op = "i32.add" -> i32Const(lVal + rVal)
               [] op = "i32.sub" -> i32Const(lVal - rVal)
               [] op = "i32.mul" -> i32Const(ToInt32(lVal * rVal))
               [] op = "i32.div_s" /\ rVal # 0 -> i32Const(ToInt32(TruncDiv(lVal, rVal)))
               [] op = "i32.shl" -> i32Const(ToInt32(ToInt32(lVal) * Pow2(rVal % 32)))
               [] op = "i32.shr_s" -> i32Const(ShrS(lVal, rVal))
               [] op = "f32.add" -> f32Const(lVal + rVal)
               [] op = "f32.sub" -> f32Const(lVal - rVal)
               [] op = "f32.mul" -> f32Const(lVal * rVal)
               [] op = "f32.div" -> F32DivConst(lVal, rVal)
               [] OTHER -> node
    ELSE node

isConst(n, v) == n.type = "const" /\ Len(n.value) = 1 /\ NumberOf(n) = v

peepholePass(node) ==
    IF Len(node.children) # 2 THEN node
    ELSE LET op    == OpOf(node)
             left  == node.children[1]
             right == node.children[2]
         IN  CASE op \in {"i32.add", "f32.add"} /\ isConst(right, 0) -> left
               [] op \in {"i32.add", "f32.add"} /\ isConst(left, 0) -> right
               [] op \in {"i32.sub", "f32.sub"} /\ isConst(right, 0) -> left
               [] op \in {"i32.mul", "f32.mul"} /\ isConst(right, 1) -> left
               [] op \in {"i32.mul", "f32.mul"} /\ isConst(left, 1) -> right
               [] op = "i32.mul" /\ (isConst(right, 0) \/ isConst(left, 0)) -> i32Const(0)
               [] op \in {"i32.shl", "i32.shr_s", "i32.shr_u"} /\ isConst(right, 0) -> left
               [] OTHER -> node

\* the children kept by the dead-code scan: everything up to and including the
\* first return / br / unreachable / br_table
RECURSIVE DceKeep(_)
DceKeep(cs) ==
    IF cs = << >> THEN << >>
    ELSE IF Head(cs).type \in {"return", "br", "br_if", "unreachable", "br_table"}
              /\ Head(cs).type # "br_if"
         THEN <<Head(cs)>>
         ELSE <<Head(cs)>> \o DceKeep(Tail(cs))

\* variant of dcePass that leaves loop bodies alone
dcePassNoLoop(node) ==
    IF node.type \in {"block", "func"}
    THEN LET newChildren == DceKeep(node.children)
         IN  IF Len(newChildren) # Len(node.children)
             THEN [node EXCEPT !.children = newChildren]
             ELSE node
    ELSE node

dcePass(node) ==
    IF node.type \in {"block", "loop", "func"}
    THEN LET newChildren == DceKeep(node.children)
         IN  IF Len(newChildren) # Len(node.children)
             THEN [node EXCEPT !.children = newChildren]
             ELSE node
    ELSE node

\* makeIncrement with the step fixed to 1, whatever step the loop has
makeIncrementUnitStep(loopVar, stepVal) ==
    localSet(loopVar, bin("i32.add", localGet(loopVar), i32Const(1)))

makeIncrement(loopVar, stepVal) ==
    [Blank EXCEPT !.type = "local.set", !.name = loopVar,
        !.children = << [Blank EXCEPT !.type = "binop", !.op = "i32.add",
            !.children = << [Blank EXCEPT !.type = "local.get", !.name = loopVar],
                            [Blank EXCEPT !.type = "const", !.valueType = "i32",
                                          !.value = <<stepVal>>] >>] >>]

\* UnrollCopies with the increment emitted before every copy, the first included
RECURSIVE UnrollCopiesIncFirst(_, _, _, _, _)
UnrollCopiesIncFirst(k, factor, realBody, loopVar, stepVal) ==
    IF k >= factor THEN << >>
    ELSE <<makeIncrement(loopVar, stepVal)>>
         \o realBody
         \o UnrollCopiesIncFirst(k + 1, factor, realBody, loopVar, stepVal)

\* the "Generate N copies" loop: copies k .. factor-1 of the real body, each
\* but copy 0 preceded by an increment
RECURSIVE UnrollCopies(_, _, _, _, _)
UnrollCopies(k, factor, realBody, loopVar, stepVal) ==
    IF k >= factor THEN << >>
    ELSE (IF k > 0 THEN <<makeIncrement(loopVar, stepVal)>> ELSE << >>)
         \o realBody
         \o UnrollCopies(k + 1, factor, realBody, loopVar, stepVal)

loopUnrollPass(node, factor) ==
    IF node.type # "loop" THEN node
    ELSE LET body == node.children
             n    == Len(body)
         IN  IF n < 3 THEN node
             ELSE LET lastNode == body[n]
                      incNode  == body[n - 1]
                  IN  IF incNode.type # "local.set" THEN node
                      ELSE IF Len(incNode.children) = 0 THEN node
                      ELSE LET adder == incNode.children[1]
                           IN  IF adder.type # "binop" \/ adder.op # "i32.add" THEN node
                               ELSE IF Len(adder.children) < 2 THEN node
                               ELSE LET step == adder.children[2]
                                    IN  IF step.type # "const" THEN node
                                        ELSE IF body[1].type # "br_if" THEN node
                                        ELSE LET stepVal  == NumberOf(step)
                                                 loopVar  == incNode.name
                                                 realBody == SubSeq(body, 2, n - 2)
                                             IN  [node EXCEPT !.children =
                                                    <<body[1]>>
                                                    \o UnrollCopies(0, factor, realBody, loopVar, stepVal)
                                                    \o <<makeIncrement(loopVar, stepVal)>>
                                                    \o <<lastNode>>]

\* the visitor a pass applies at every node
Visit(pass, factor, node) ==
    CASE pass = "fold"     -> constantFoldingPass(node)
      [] pass = "peephole" -> peepholePass(node)
      [] pass = "dce"      -> dcePass(node)
      [] pass = "unroll"   -> loopUnrollPass(node, factor)

RECURSIVE runPass(_, _, _)
RECURSIVE runPassAll(_, _, _)
\* nodes.map((c) => runPass(c, visitor))
runPassAll(nodes, pass, factor) ==
    IF nodes = << >> THEN << >>
    ELSE <<runPass(Head(nodes), pass, factor)>> \o runPassAll(Tail(nodes), pass, factor)

runPass(node, pass, factor) ==
    Visit(pass, factor,
          [node EXCEPT
             !.children   = runPassAll(node.children, pass, factor),
             !.consequent = runPassAll(node.consequent, pass, factor),
             !.alternate  = runPassAll(node.alternate, pass, factor)])

\* one iteration of the fixed-point loop body
OptimizeIteration(f, level) ==
    LET folded == runPass(f, "fold", 0)
    IN  IF level >= 2
        THEN runPass(runPass(folded, "peephole", 0), "dce", 0)
        ELSE folded

RECURSIVE OptimizeFixpoint(_, _, _)
OptimizeFixpoint(f, level, passCount) ==
    IF passCount >= MAX_PASSES THEN f
    ELSE LET nxt == OptimizeIteration(f, level)
         IN  IF nxt = f THEN nxt ELSE OptimizeFixpoint(nxt, level, passCount + 1)

\* options.unrollFactor || 4
DefaultUnrollFactor == 4
UnrollFactorOf(unrollFactor) == IF unrollFactor = 0 THEN DefaultUnrollFactor ELSE unrollFactor

optimizeFunc(f, level, unrollFactor) ==
    LET fixed == OptimizeFixpoint(f, level, 0)
    IN  IF level >= 3
        THEN runPass(runPass(fixed, "unroll", UnrollFactorOf(unrollFactor)), "fold", 0)
        ELSE fixed

RECURSIVE optimizeChildren(_, _, _)
\* moduleNode.children.map(...): func children are optimized, the others kept
optimizeChildren(nodes, level, unrollFactor) ==
    IF nodes = << >> THEN << >>
    ELSE <<IF Head(nodes).type = "func"
           THEN optimizeFunc(Head(nodes), level, unrollFactor)
           ELSE Head(nodes)>>
         \o optimizeChildren(Tail(nodes), level, unrollFactor)

optimize(node, level, unrollFactor) ==
    IF level = 0 THEN node
    ELSE IF node.type = "module"
    THEN [node EXCEPT !.children = optimizeChildren(node.children, level, unrollFactor)]
    ELSE IF node.type # "func" THEN node
    ELSE optimizeFunc(node, level, unrollFactor)

-----------------------------------------------------------------------------
(* Inputs of the optimizer runs *)

i32Store(idx, val) == memOp("i32.store", 0, 2, <<idx, val>>)

OptLeaves == {i32Const(v) : v \in 0..MaxVal} \cup {localGet("i")}

OptExprs1 ==
    {bin(op, a, b) : op \in {"i32.add", "i32.sub", "i32.mul", "i32.shl"},
                     a \in OptLeaves, b \in OptLeaves}

OptExprs2 ==
    {bin(op, e, a) : op \in {"i32.add", "i32.mul"}, e \in OptExprs1, a \in OptLeaves}

\* statements of a loop body
OptBodyStmts ==
    {i32Store(localGet("i"), a) : a \in OptLeaves}
    \cup {localSet("x", bin("i32.add", localGet("x"), a)) : a \in OptLeaves}

SeqsUpTo(S, n) == UNION {[1..k -> S] : k \in 0..n}

\* the canonical counted loop of the DSL
CountedLoop(body, step) ==
    loop("top",
         <<brIf("out", bin("i32.ge_s", localGet("i"), localGet("n")))>>
         \o body
         \o <<localSet("i", bin("i32.add", localGet("i"), i32Const(step))), br("top")>>)

LoopFunc(lp) ==
    func("kernel", <<param("n", "i32")>>, << >>, <<local("i", "i32"), local("x", "i32")>>,
         <<localSet("i", i32Const(0)), block("out", <<lp>>)>>)

ExprFunc(e) ==
    func("calc", << >>, << >>, <<local("i", "i32"), local("x", "i32")>>, <<localSet("x", e)>>)

\* bodies with statements after a terminator or a br_if
OptDeadFuncs ==
    {func("dead", << >>, << >>, <<local("i", "i32"), local("x", "i32")>>,
          <<block("out", <<s, t, s>>), u>>) :
        s \in {localSet("x", bin("i32.mul", localGet("i"), i32Const(0))), nop},
        t \in {br("out"), returnNode(<< >>), unreachable, brIf("out", localGet("i")), nop},
        u \in {returnNode(<< >>), nop}}

OptModules ==
    {module("m", <<importMemory("env", "memory", [min |-> 1, max |-> << >>, shared |-> FALSE]), f, exportFunc("kernel")>>) :
        f \in {LoopFunc(CountedLoop(<<s>>, 1)) : s \in OptBodyStmts}}

-----------------------------------------------------------------------------
(* JavaScript string helpers used by the emitter and the vectorizer *)

\* s.startsWith(prefix)
StartsWith(s, prefix) == Len(s) >= Len(prefix) /\ SubSeq(s, 1, Len(prefix)) = prefix

\* s.includes(sub)
Includes(s, sub) ==
    \E i \in 1..(Len(s) - Len(sub) + 1) : SubSeq(s, i, i + Len(sub) - 1) = sub

DigitChars == <<"0", "1", "2", "3", "4", "5", "6", "7", "8", "9">>

IsDigit(c) == \E d \in 1..10 : DigitChars[d] = c

\* /^\d+$/.test(s)
IsDigits(s) == Len(s) > 0 /\ \A i \in 1..Len(s) : IsDigit(SubSeq(s, i, i))

DigitVal(c) == (CHOOSE d \in 1..10 : DigitChars[d] = c) - 1

\* parseInt(s) of a string of decimal digits
RECURSIVE ParseInt(_)
ParseInt(s) ==
    IF Len(s) = 0 THEN 0
    ELSE ParseInt(SubSeq(s, 1, Len(s) - 1)) * 10 + DigitVal(SubSeq(s, Len(s), Len(s)))

\* s.replace(/\D/g, "")
RECURSIVE StripNonDigits(_)
StripNonDigits(s) ==
    IF Len(s) = 0 THEN ""
    ELSE (IF IsDigit(SubSeq(s, 1, 1)) THEN SubSeq(s, 1, 1) ELSE "")
         \o StripNonDigits(SubSeq(s, 2, Len(s)))

\* parts.join(sep)
RECURSIVE Join(_, _)
Join(parts, sep) ==
    IF parts = << >> THEN ""
    ELSE IF Len(parts) = 1 THEN parts[1]
    ELSE parts[1] \o sep \o Join(Tail(parts), sep)

\* s.split(sep) for a one-character separator
RECURSIVE Split(_, _)
Split(s, sep) ==
    IF ~Includes(s, sep) THEN <<s>>
    ELSE LET i == CHOOSE k \in 1..Len(s) :
                      /\ SubSeq(s, k, k) = sep
                      /\ \A j \in 1..(k - 1) : SubSeq(s, j, j) # sep
         IN  <<SubSeq(s, 1, i - 1)>> \o Split(SubSeq(s, i + 1, Len(s)), sep)

\* printable ASCII in code order, starting at U+0020; the positions of the
\* double quote, the backslash and the grave accent, which no generated name
\* uses, hold a space
Ascii ==
    " ! #$%&'()*+,-./0123456789:;<=>?@ABCDEFGHIJKLMNOPQRSTUVWXYZ[ ]^_ abcdefghijklmnopqrstuvwxyz{|}~"

CharCode(c) == 31 + (CHOOSE k \in 1..Len(Ascii) : SubSeq(Ascii, k, k) = c)

\* new TextEncoder().encode(s) for ASCII strings
RECURSIVE Utf8(_)
Utf8(s) ==
    IF Len(s) = 0 THEN << >>
    ELSE <<CharCode(SubSeq(s, 1, 1))>> \o Utf8(SubSeq(s, 2, Len(s)))

\* a Map as its insertion log; get returns the value of the latest set
MapSet(m, k, v) == Append(m, <<k, v>>)
MapHas(m, k) == \E i \in 1..Len(m) : m[i][1] = k
MapGet(m, k) ==
    m[CHOOSE i \in 1..Len(m) :
          m[i][1] = k /\ \A j \in (i + 1)..Len(m) : m[j][1] # k][2]

-----------------------------------------------------------------------------
(* Binary encoding: src/src/dsl/binary_encoding.ts *)

SECTION == [CUSTOM |-> 0, TYPE |-> 1, IMPORT |-> 2, FUNC |-> 3, TABLE |-> 4,
            MEMORY |-> 5, GLOBAL |-> 6, EXPORT |-> 7, START |-> 8, ELEMENT |-> 9,
            CODE |-> 10, DATA |-> 11, DATA_COUNT |-> 12]

VAL_TYPE == [i32 |-> 127, i64 |-> 126, f32 |-> 125, f64 |-> 124, v128 |-> 123,
             funcref |-> 112, externref |-> 111, void |-> 64,
             func |-> 112, extern |-> 111]

KIND == [FUNC |-> 0, TABLE |-> 1, MEMORY |-> 2, GLOBAL |-> 3]

\* VAL_TYPE[t]; a missing key gives undefined, which u8 writes as 0
ValTypeByte(t) == IF t \in DOMAIN VAL_TYPE THEN VAL_TYPE[t] ELSE 0

\* BinaryWriter.u8
U8(v) == <<v % 256>>

\* BinaryWriter.u32: unsigned LEB128 (v >= 0; v >>>= 0 leaves it unchanged)
RECURSIVE U32(_)
U32(v) ==
    LET byte == v % 128
        rest == v \div 128
    IN  IF rest = 0 THEN <<byte>> ELSE <<byte + 128>> \o U32(rest)

\* variant that stops as soon as the shifted value is 0 or -1, whatever bit 6
\* of the byte is
RECURSIVE S32StopEarly(_)
S32StopEarly(v) ==
    LET byte == v % 128
        rest == (v - byte) \div 128
    IN  IF rest = 0 \/ rest = -1 THEN <<byte>> ELSE <<byte + 128>> \o S32StopEarly(rest)

\* BinaryWriter.s32: signed LEB128; v & 0x7f is v mod 128 and v >> 7 is the
\* floor division by 128 in two's complement
RECURSIVE S32(_)
S32(v) ==
    LET byte == v % 128
        rest == (v - byte) \div 128
    IN  IF (rest = 0 /\ byte < 64) \/ (rest = -1 /\ byte >= 64)
        THEN <<byte>>
        ELSE <<byte + 128>> \o S32(rest)

\* BinaryWriter.s64: the same loop on BigInt
S64(v) == S32(v)

FloorLog2(v) == CHOOSE e \in 0..30 : Pow2(e) <= v /\ v < Pow2(e + 1)

Abs(v) == IF v < 0 THEN -v ELSE v

\* BinaryWriter.f32: IEEE-754 binary32, little endian, of an integer |v| < 2^24
F32Bytes(v) ==
    IF v = 0 THEN <<0, 0, 0, 0>>
    ELSE LET e    == FloorLog2(Abs(v))
             mant == (Abs(v) - Pow2(e)) * Pow2(23 - e)
             bexp == e + 127
             sign == IF v < 0 THEN 128 ELSE 0
         IN  <<mant % 256, (mant \div 256) % 256,
               (bexp % 2) * 128 + mant \div 65536, sign + bexp \div 2>>

\* BinaryWriter.f64: IEEE-754 binary64, little endian, of an integer |v| < 2^20
F64Bytes(v) ==
    IF v = 0 THEN <<0, 0, 0, 0, 0, 0, 0, 0>>
    ELSE LET e    == FloorLog2(Abs(v))
             mant == (Abs(v) - Pow2(e)) * Pow2(20 - e)
             bexp == e + 1023
             sign == IF v < 0 THEN 128 ELSE 0
         IN  <<0, 0, 0, 0, mant % 256, (mant \div 256) % 256,
               (bexp % 16) * 16 + mant \div 65536, sign + bexp \div 16>>

\* BinaryWriter.name
Name(s) == U32(Len(Utf8(s))) \o Utf8(s)

OpcodeEntries ==
    { <<"unreachable", 0>>, <<"nop", 1>>, <<"block", 2>>, <<"loop", 3>>, <<"if", 4>>,
      <<"br", 12>>, <<"br_if", 13>>, <<"br_table", 14>>, <<"return", 15>>, <<"call", 16>>,
      <<"call_indirect", 17>>, <<"drop", 26>>, <<"select", 27>>, <<"local.get", 32>>,
      <<"local.set", 33>>, <<"local.tee", 34>>, <<"global.get", 35>>, <<"global.set", 36>>,
      <<"table.get", 37>>, <<"table.set", 38>>, <<"i32.load", 40>>, <<"i64.load", 41>>,
      <<"f32.load", 42>>, <<"f64.load", 43>>, <<"i32.load8_s", 44>>, <<"i32.load8_u", 45>>,
      <<"i32.load16_s", 46>>, <<"i32.load16_u", 47>>, <<"i64.load8_s", 48>>,
      <<"i64.load8_u", 49>>, <<"i64.load16_s", 50>>, <<"i64.load16_u", 51>>,
      <<"i64.load32_s", 52>>, <<"i64.load32_u", 53>>, <<"i32.store", 54>>, <<"i64.store", 55>>,
      <<"f32.store", 56>>, <<"f64.store", 57>>, <<"i32.store8", 58>>, <<"i32.store16", 59>>,
      <<"i64.store8", 60>>, <<"i64.store16", 61>>, <<"i64.store32", 62>>,
      <<"memory.size", 63>>, <<"memory.grow", 64>>, <<"i32.const", 65>>, <<"i64.const", 66>>,
      <<"f32.const", 67>>, <<"f64.const", 68>>, <<"i32.eqz", 69>>, <<"i32.eq", 70>>,
      <<"i32.ne", 71>>, <<"i32.lt_s", 72>>, <<"i32.lt_u", 73>>, <<"i32.gt_s", 74>>,
      <<"i32.gt_u", 75>>, <<"i32.le_s", 76>>, <<"i32.le_u", 77>>, <<"i32.ge_s", 78>>,
      <<"i32.ge_u", 79>>, <<"i64.eqz", 80>>, <<"i64.eq", 81>>, <<"i64.ne", 82>>,
      <<"i64.lt_s", 83>>, <<"i64.lt_u", 84>>, <<"i64.gt_s", 85>>, <<"i64.gt_u", 86>>,
      <<"i64.le_s", 87>>, <<"i64.le_u", 88>>, <<"i64.ge_s", 89>>, <<"i64.ge_u", 90>>,
      <<"f32.eq", 91>>, <<"f32.ne", 92>>, <<"f32.lt", 93>>, <<"f32.gt", 94>>, <<"f32.le", 95>>,
      <<"f32.ge", 96>>, <<"f64.eq", 97>>, <<"f64.ne", 98>>, <<"f64.lt", 99>>,
      <<"f64.gt", 100>>, <<"f64.le", 101>>, <<"f64.ge", 102>>, <<"i32.clz", 103>>,
      <<"i32.ctz", 104>>, <<"i32.popcnt", 105>>, <<"i32.add", 106>>, <<"i32.sub", 107>>,
      <<"i32.mul", 108>>, <<"i32.div_s", 109>>, <<"i32.div_u", 110>>, <<"i32.rem_s", 111>>,
      <<"i32.rem_u", 112>>, <<"i32.and", 113>>, <<"i32.or", 114>>, <<"i32.xor", 115>>,
      <<"i32.shl", 116>>, <<"i32.shr_s", 117>>, <<"i32.shr_u", 118>>, <<"i32.rotl", 119>>,
      <<"i32.rotr", 120>>, <<"i64.clz", 121>>, <<"i64.ctz", 122>>, <<"i64.popcnt", 123>>,
      <<"i64.add", 124>>, <<"i64.sub", 125>>, <<"i64.mul", 126>>, <<"i64.div_s", 127>>,
      <<"i64.div_u", 128>>, <<"i64.rem_s", 129>>, <<"i64.rem_u", 130>>, <<"i64.and", 131>>,
      <<"i64.or", 132>>, <<"i64.xor", 133>>, <<"i64.shl", 134>>, <<"i64.shr_s", 135>>,
      <<"i64.shr_u", 136>>, <<"i64.rotl", 137>>, <<"i64.rotr", 138>>, <<"f32.abs", 139>>,
      <<"f32.neg", 140>>, <<"f32.ceil", 141>>, <<"f32.floor", 142>>, <<"f32.trunc", 143>>,
      <<"f32.nearest", 144>>, <<"f32.sqrt", 145>>, <<"f32.add", 146>>, <<"f32.sub", 147>>,
      <<"f32.mul", 148>>, <<"f32.div", 149>>, <<"f32.min", 150>>, <<"f32.max", 151>>,
      <<"f32.copysign", 152>>, <<"f64.abs", 153>>, <<"f64.neg", 154>>, <<"f64.ceil", 155>>,
      <<"f64.floor", 156>>, <<"f64.trunc", 157>>, <<"f64.nearest", 158>>, <<"f64.sqrt", 159>>,
      <<"f64.add", 160>>, <<"f64.sub", 161>>, <<"f64.mul", 162>>, <<"f64.div", 163>>,
      <<"f64.min", 164>>, <<"f64.max", 165>>, <<"f64.copysign", 166>>, <<"i32.wrap_i64", 167>>,
      <<"i32.trunc_f32_s", 168>>, <<"i32.trunc_f32_u", 169>>, <<"i32.trunc_f64_s", 170>>,
      <<"i32.trunc_f64_u", 171>>, <<"i64.extend_i32_s", 172>>, <<"i64.extend_i32_u", 173>>,
      <<"i64.trunc_f32_s", 174>>, <<"i64.trunc_f32_u", 175>>, <<"i64.trunc_f64_s", 176>>,
      <<"i64.trunc_f64_u", 177>>, <<"f32.convert_i32_s", 178>>, <<"f32.convert_i32_u", 179>>,
      <<"f32.convert_i64_s", 180>>, <<"f32.convert_i64_u", 181>>, <<"f32.demote_f64", 182>>,
      <<"f64.convert_i32_s", 183>>, <<"f64.convert_i32_u", 184>>, <<"f64.convert_i64_s", 185>>,
      <<"f64.convert_i64_u", 186>>, <<"f64.promote_f32", 187>>, <<"i32.reinterpret_f32", 188>>,
      <<"i64.reinterpret_f64", 189>>, <<"f32.reinterpret_i32", 190>>,
      <<"f64.reinterpret_i64", 191>>, <<"memory.init", 64520>>, <<"data.drop", 64521>>,
      <<"memory.copy", 64522>>, <<"memory.fill", 64523>>, <<"i32.trunc_sat_f32_s", 64512>>,
      <<"i32.trunc_sat_f32_u", 64513>>, <<"i32.trunc_sat_f64_s", 64514>>,
      <<"i32.trunc_sat_f64_u", 64515>>, <<"i64.trunc_sat_f32_s", 64516>>,
      <<"i64.trunc_sat_f32_u", 64517>>, <<"i64.trunc_sat_f64_s", 64518>>,
      <<"i64.trunc_sat_f64_u", 64519>>, <<"atomic.notify", 65024>>, <<"atomic.wait", 65025>>,
      <<"atomic.fence", 65027>>, <<"i32.atomic.load", 65040>>, <<"i64.atomic.load", 65041>>,
      <<"i32.atomic.load8_u", 65042>>, <<"i32.atomic.load16_u", 65043>>,
      <<"i64.atomic.load8_u", 65044>>, <<"i64.atomic.load16_u", 65045>>,
      <<"i64.atomic.load32_u", 65046>>, <<"i32.atomic.store", 65047>>,
      <<"i64.atomic.store", 65048>>, <<"i32.atomic.store8", 65049>>,
      <<"i32.atomic.store16", 65050>>, <<"i64.atomic.store8", 65051>>,
      <<"i64.atomic.store16", 65052>>, <<"i64.atomic.store32", 65053>>,
      <<"i32.atomic.rmw.add", 65054>>, <<"i64.atomic.rmw.add", 65055>>,
      <<"i32.atomic.rmw.sub", 65058>>, <<"i64.atomic.rmw.sub", 65059>>,
      <<"i32.atomic.rmw.and", 65062>>, <<"i64.atomic.rmw.and", 65063>>,
      <<"i32.atomic.rmw.or", 65066>>, <<"i64.atomic.rmw.or", 65067>>,
      <<"i32.atomic.rmw.xor", 65070>>, <<"i64.atomic.rmw.xor", 65071>>,
      <<"i32.atomic.rmw.xchg", 65074>>, <<"i64.atomic.rmw.xchg", 65075>>,
      <<"i32.atomic.rmw.cmpxchg", 65078>>, <<"i64.atomic.rmw.cmpxchg", 65079>>,
      <<"v128.load", 64768>>, <<"v128.load8x8_s", 64769>>, <<"v128.load8x8_u", 64770>>,
      <<"v128.load16x4_s", 64771>>, <<"v128.load16x4_u", 64772>>, <<"v128.load32x2_s", 64773>>,
      <<"v128.load32x2_u", 64774>>, <<"v128.load8_splat", 64775>>,
      <<"v128.load16_splat", 64776>>, <<"v128.load32_splat", 64777>>,
      <<"v128.load64_splat", 64778>>, <<"v128.store", 64779>>, <<"v128.const", 64780>>,
      <<"v128.shuffle", 64781>>, <<"i8x16.swizzle", 64782>>, <<"i8x16.splat", 64783>>,
      <<"i16x8.splat", 64784>>, <<"i32x4.splat", 64785>>, <<"i64x2.splat", 64786>>,
      <<"f32x4.splat", 64787>>, <<"f64x2.splat", 64788>>, <<"i8x16.extract_lane_s", 64789>>,
      <<"i8x16.extract_lane_u", 64790>>, <<"i8x16.replace_lane", 64791>>,
      <<"i16x8.extract_lane_s", 64792>>, <<"i16x8.extract_lane_u", 64793>>,
      <<"i16x8.replace_lane", 64794>>, <<"i32x4.extract_lane", 64795>>,
      <<"i32x4.replace_lane", 64796>>, <<"i64x2.extract_lane", 64797>>,
      <<"i64x2.replace_lane", 64798>>, <<"f32x4.extract_lane", 64799>>,
      <<"f32x4.replace_lane", 64800>>, <<"f64x2.extract_lane", 64801>>,
      <<"f64x2.replace_lane", 64802>>, <<"i8x16.eq", 64803>>, <<"i8x16.ne", 64804>>,
      <<"i32x4.eq", 64822>>, <<"i32x4.ne", 64823>>, <<"i32x4.lt_s", 64824>>,
      <<"i32x4.lt_u", 64825>>, <<"i32x4.gt_s", 64826>>, <<"i32x4.gt_u", 64827>>,
      <<"i32x4.le_s", 64828>>, <<"i32x4.le_u", 64829>>, <<"i32x4.ge_s", 64830>>,
      <<"i32x4.ge_u", 64831>>, <<"i8x16.add", 64878>>, <<"i16x8.add", 64878>>,
      <<"i32x4.add", 64878>>, <<"i32x4.sub", 64881>>, <<"i32x4.mul", 64917>>,
      <<"i32x4.min_s", 64918>>, <<"i32x4.max_s", 64920>>, <<"f32x4.eq", 64833>>,
      <<"f32x4.ne", 64834>>, <<"f32x4.lt", 64835>>, <<"f32x4.gt", 64836>>,
      <<"f32x4.le", 64837>>, <<"f32x4.ge", 64838>>, <<"f64x2.eq", 64839>>,
      <<"f64x2.ne", 64840>>, <<"f32x4.add", 64996>>, <<"f32x4.sub", 64997>>,
      <<"f32x4.mul", 64998>>, <<"f32x4.div", 64999>>, <<"f32x4.min", 65000>>,
      <<"f32x4.max", 65001>>, <<"f32x4.pmin", 65002>>, <<"f32x4.pmax", 65003>>,
      <<"f64x2.add", 65008>>, <<"f64x2.sub", 65009>>, <<"f64x2.mul", 65010>>,
      <<"f64x2.div", 65011>> }

OpcodeKeys == {e[1] : e \in OpcodeEntries}

\* OPCODES[key] is defined exactly for the keys of OpcodeKeys
OPCODES == [k \in OpcodeKeys |-> (CHOOSE e \in OpcodeEntries : e[1] = k)[2]]

-----------------------------------------------------------------------------
(* Binary emitter: src/src/dsl/optimizer.ts (section "src/dsl/emit.ts") *)

\* An emission either yields bytes or throws; a throw aborts the whole compile.
Ok(bytes)  == [ok |-> TRUE, err |-> "", bytes |-> bytes]
Throw(msg) == [ok |-> FALSE, err |-> msg, bytes |-> << >>]

\* sequencing of two writes to the same writer: the first throw wins
Cat(r1, r2) ==
    IF ~r1.ok THEN r1
    ELSE IF ~r2.ok THEN r2
    ELSE Ok(r1.bytes \o r2.bytes)

\* CompilerContext.addType: index of the signature key, appended when new
SignatureKey(params, results) == Join(params, ",") \o "|" \o Join(results, ",")

IndexOf(seq, x) ==
    IF \E i \in 1..Len(seq) : seq[i] = x
    THEN (CHOOSE i \in 1..Len(seq) : seq[i] = x /\ \A j \in 1..(i - 1) : seq[j] # x) - 1
    ELSE -1

\* variant that appends the signature whether or not it is already listed
addTypeAlwaysNew(typeSignatures, params, results) ==
    [idx |-> Len(typeSignatures),
     typeSignatures |-> Append(typeSignatures, SignatureKey(params, results))]

addType(typeSignatures, params, results) ==
    LET key == SignatureKey(params, results)
        idx == IndexOf(typeSignatures, key)
    IN  IF idx = -1
        THEN [idx |-> Len(typeSignatures), typeSignatures |-> Append(typeSignatures, key)]
        ELSE [idx |-> idx, typeSignatures |-> typeSignatures]

\* FunctionContext constructor: params then locals get consecutive indices;
\* only named ones enter localIndexMap
RECURSIVE IndexNamed(_, _, _)
IndexNamed(decls, idx, map) ==
    IF decls = << >> THEN map
    ELSE IndexNamed(Tail(decls), idx + 1,
                    IF Head(decls).name # "" THEN MapSet(map, Head(decls).name, idx)
                    ELSE map)

\* variant that numbers the locals before the params
FunctionContextLocalsFirst(funcNode) ==
    [localIndexMap |-> IndexNamed(funcNode.locals \o funcNode.params, 0, << >>),
     labelStack    |-> << >>]

FunctionContext(funcNode) ==
    [localIndexMap |-> IndexNamed(funcNode.params \o funcNode.locals, 0, << >>),
     labelStack    |-> << >>]

pushLabel(fCtx, name) == [fCtx EXCEPT !.labelStack = Append(@, name)]

\* FunctionContext.getRelativeDepth: distance from the top of the label stack
\* of the nearest entry equal to labelName, else the number the digits spell,
\* else a throw (ok = FALSE)
\* variant that counts from the bottom of the stack
DepthFromBottom(labelStack, i) == i - 1

DepthFromTop(labelStack, i) == Len(labelStack) - i

getRelativeDepth(labelStack, labelName) ==
    IF \E i \in 1..Len(labelStack) : labelStack[i] = labelName
    THEN LET i == CHOOSE k \in 1..Len(labelStack) :
                      /\ labelStack[k] = labelName
                      /\ \A j \in (k + 1)..Len(labelStack) : labelStack[j] # labelName
         IN  [ok |-> TRUE, value |-> DepthFromTop(labelStack, i)]
    ELSE IF IsDigits(labelName) THEN [ok |-> TRUE, value |-> ParseInt(labelName)]
    ELSE [ok |-> FALSE, value |-> 0]

EmitDepth(labelStack, labelName) ==
    LET d == getRelativeDepth(labelStack, labelName)
    IN  IF d.ok THEN Ok(U32(d.value)) ELSE Throw("Unknown label")

RECURSIVE EmitDepths(_, _)
EmitDepths(labelStack, labels) ==
    IF labels = << >> THEN Ok(<< >>)
    ELSE Cat(EmitDepth(labelStack, Head(labels)), EmitDepths(labelStack, Tail(labels)))

\* emitConst
emitConst(node) ==
    LET v == IF node.value = << >> THEN 0 ELSE node.value[1]
    IN  CASE node.valueType = "i32" -> Ok(<<65>> \o S32(v))
          [] node.valueType = "i64" -> Ok(<<66>> \o S64(v))
          [] node.valueType = "f32" -> Ok(<<67>> \o F32Bytes(v))
          [] node.valueType = "f64" -> Ok(<<68>> \o F64Bytes(v))
          [] OTHER -> Throw("Unsupported const type")

\* name-to-index lookup of calls and locals: the map entry, else the number
\* the digits spell, else undefined; `idx || 0` then writes 0
IndexOrZero(map, name) ==
    IF MapHas(map, name) THEN MapGet(map, name)
    ELSE IF IsDigits(name) THEN ParseInt(name)
    ELSE 0

\* Math.log2(node.align) as u32 writes it (the fraction is dropped), 0 when
\* align is absent or 0
AlignLog2(node) == IF node.align # 0 THEN FloorLog2(node.align) ELSE 0

\* opcode bytes of emitNode: one byte, or prefix byte and LEB128 sub-opcode
OpcodeBytes(opCode) ==
    IF opCode > 255 THEN U8((opCode \div 256) % 256) \o U32(opCode % 256)
    ELSE U8(opCode)

\* immediates of a general operation
Immediates(node, opKey) ==
    IF Includes(opKey, ".load") \/ Includes(opKey, ".store") \/ Includes(opKey, "atomic")
    THEN U32(AlignLog2(node)) \o U32(node.offset)
    ELSE IF Includes(opKey, "extract_lane") \/ Includes(opKey, "replace_lane")
    THEN U8(IF node.value = << >> THEN 0 ELSE node.value[1])
    ELSE IF opKey = "v128.const" THEN node.value
    ELSE IF opKey = "atomic.fence" THEN <<0>>
    ELSE IF StartsWith(opKey, "memory.")
    THEN (IF opKey = "memory.init"
          THEN U32(IF node.value = << >> THEN 0 ELSE node.value[1]) \o <<0>>
          ELSE IF opKey = "memory.copy" THEN <<0, 0>>
          ELSE <<0>>)
    ELSE << >>

ControlTypes == {"block", "loop", "if"}

StackOpTypes ==
    {"local.get", "local.set", "local.tee", "global.get", "global.set", "call",
     "call_indirect", "br", "br_if", "br_table", "drop", "return", "select"}

\* the label a br / br_if names: node.name || node.value
BranchLabel(node) ==
    IF node.name # "" THEN [ok |-> TRUE, label |-> node.name]
    ELSE IF node.labels # << >> THEN [ok |-> TRUE, label |-> node.labels[1]]
    ELSE [ok |-> FALSE, label |-> ""]

\* immediates of emitStackOps
StackImmediates(node, fCtx, ctx) ==
    IF node.type \in {"br", "br_if"}
    THEN (IF BranchLabel(node).ok
          THEN EmitDepth(fCtx.labelStack, BranchLabel(node).label)
          ELSE Throw("Unknown label"))
    ELSE IF node.type = "br_table"
    THEN Cat(Ok(U32(Len(node.labels))),
             Cat(EmitDepths(fCtx.labelStack, node.labels),
                 EmitDepth(fCtx.labelStack, node.name)))
    ELSE IF node.type = "call"
    THEN Ok(U32(IndexOrZero(ctx.funcIndexMap, node.name)))
    ELSE IF node.type = "call_indirect"
    THEN Ok(U32(IF node.value = << >> THEN 0 ELSE node.value[1]) \o U32(node.offset))
    ELSE IF Includes(node.type, "local")
    THEN Ok(U32(IndexOrZero(fCtx.localIndexMap, node.name)))
    ELSE IF Includes(node.type, "global")
    THEN Ok(U32(LET digits == StripNonDigits(node.name)
                IN  IF digits = "" THEN 0 ELSE ParseInt(digits)))
    ELSE Ok(<< >>)

RECURSIVE emitNode(_, _, _)
RECURSIVE emitNodes(_, _, _)

\* emitControlFlow: condition of an if first, opcode and block type, then the
\* body with the structure's name on the label stack, then END
emitControlFlow(node, fCtx, ctx) ==
    LET cond ==
            IF node.type = "if"
            THEN (IF node.children = << >> THEN Throw("If node missing condition")
                  ELSE emitNode(node.children[1], fCtx, ctx))
            ELSE Ok(<< >>)
        blockType ==
            IF node.valueType # "" /\ ValTypeByte(node.valueType) # 0
            THEN ValTypeByte(node.valueType)
            ELSE VAL_TYPE.void
        inner == pushLabel(fCtx, node.name)
        body ==
            IF node.type = "if"
            THEN Cat(emitNodes(node.consequent, inner, ctx),
                     IF node.alternate # << >>
                     THEN Cat(Ok(<<5>>), emitNodes(node.alternate, inner, ctx))
                     ELSE Ok(<< >>))
            ELSE emitNodes(node.children, inner, ctx)
    IN  Cat(cond, Cat(Ok(U8(OPCODES[node.type]) \o U8(blockType)),
                      Cat(body, Ok(<<11>>))))

\* emitStackOps: operands, opcode, immediate
emitStackOps(node, fCtx, ctx) ==
    Cat(emitNodes(node.children, fCtx, ctx),
        Cat(Ok(U8(OPCODES[node.type])), StackImmediates(node, fCtx, ctx)))

\* general operations: operands, then the opcode of node.op || node.type
emitGeneral(node, fCtx, ctx) ==
    LET opKey == OpOf(node)
    IN  Cat(emitNodes(node.children, fCtx, ctx),
            IF opKey \notin OpcodeKeys THEN Throw("Unknown opcode")
            ELSE Ok(OpcodeBytes(OPCODES[opKey]) \o Immediates(node, opKey)))

emitNode(node, fCtx, ctx) ==
    IF node.type \in ControlTypes THEN emitControlFlow(node, fCtx, ctx)
    ELSE IF node.type = "const" THEN emitConst(node)
    ELSE IF node.type \in StackOpTypes THEN emitStackOps(node, fCtx, ctx)
    ELSE emitGeneral(node, fCtx, ctx)

emitNodes(nodes, fCtx, ctx) ==
    IF nodes = << >> THEN Ok(<< >>)
    ELSE Cat(emitNode(Head(nodes), fCtx, ctx), emitNodes(Tail(nodes), fCtx, ctx))

\* writeSection: id, payload length, payload
writeSection(id, payload) == U8(id) \o U32(Len(payload)) \o payload

RECURSIVE FilterType(_, _)
FilterType(nodes, type) ==
    IF nodes = << >> THEN << >>
    ELSE (IF Head(nodes).type = type THEN <<Head(nodes)>> ELSE << >>)
         \o FilterType(Tail(nodes), type)

RECURSIVE ValueTypesOf(_)
ValueTypesOf(decls) ==
    IF decls = << >> THEN << >>
    ELSE <<Head(decls).valueType>> \o ValueTypesOf(Tail(decls))

RECURSIVE CountKind(_, _)
CountKind(imports, kind) ==
    IF imports = << >> THEN 0
    ELSE (IF Head(imports).descKind = kind THEN 1 ELSE 0) + CountKind(Tail(imports), kind)

\* variant that numbers the functions without the imported ones
FuncIndexNoImports(importFuncCount, i) == i

\* index a function gets: the imported functions come first
FuncIndex(importFuncCount, i) == importFuncCount + i

\* the functions.forEach of compile: funcIndexMap of the named functions,
\* typeSignatures and funcTypeIndices; i is the 0-based position
RECURSIVE RegisterFunctions(_, _, _)
RegisterFunctions(functions, i, ctx) ==
    IF functions = << >> THEN ctx
    ELSE LET f == Head(functions)
             t == addType(ctx.typeSignatures, ValueTypesOf(f.params), ValueTypesOf(f.results))
         IN  RegisterFunctions(Tail(functions), i + 1,
                 [ctx EXCEPT
                     !.funcIndexMap = IF f.name # ""
                                      THEN MapSet(@, f.name, FuncIndex(ctx.importFuncCount, i))
                                      ELSE @,
                     !.typeSignatures = t.typeSignatures,
                     !.funcTypeIndices = Append(@, t.idx)])

CompilerContext(imports, functions) ==
    RegisterFunctions(functions, 0,
        [funcIndexMap |-> << >>, typeSignatures |-> << >>, funcTypeIndices |-> << >>,
         importFuncCount |-> CountKind(imports, "func"),
         importGlobalCount |-> CountKind(imports, "global"),
         importMemCount |-> CountKind(imports, "memory")])

RECURSIVE ValTypeBytes(_)
ValTypeBytes(types) ==
    IF types = << >> THEN << >>
    ELSE U8(ValTypeByte(Head(types))) \o ValTypeBytes(Tail(types))

\* one entry of the type section, decoded back from its "p1,p2|r1" key
TypeEntry(sig) ==
    LET parts   == Split(sig, "|")
        p       == parts[1]
        r       == IF Len(parts) >= 2 THEN parts[2] ELSE ""
        params  == IF p # "" THEN Split(p, ",") ELSE << >>
        results == IF r # "" THEN Split(r, ",") ELSE << >>
    IN  <<96>> \o U32(Len(params)) \o ValTypeBytes(params)
             \o U32(Len(results)) \o ValTypeBytes(results)

RECURSIVE TypeEntries(_)
TypeEntries(sigs) ==
    IF sigs = << >> THEN << >> ELSE TypeEntry(Head(sigs)) \o TypeEntries(Tail(sigs))

emitTypeSection(ctx) ==
    IF ctx.typeSignatures = << >> THEN << >>
    ELSE writeSection(SECTION.TYPE,
                      U32(Len(ctx.typeSignatures)) \o TypeEntries(ctx.typeSignatures))

\* one import: names, and for a memory its kind and limits; nothing more is
\* written for the other kinds
ImportEntry(imp) ==
    Name(imp.moduleName) \o Name(imp.fieldName) \o
    (IF imp.descKind = "memory"
     THEN LET hasMax == imp.limits.max # << >>
              flags  == (IF hasMax THEN 1 ELSE 0) + (IF imp.limits.shared THEN 2 ELSE 0)
          IN  U8(KIND.MEMORY) \o U32(flags) \o U32(imp.limits.min)
                  \o (IF hasMax THEN U32(imp.limits.max[1]) ELSE << >>)
     ELSE << >>)

RECURSIVE ImportEntries(_)
ImportEntries(imports) ==
    IF imports = << >> THEN << >>
    ELSE ImportEntry(Head(imports)) \o ImportEntries(Tail(imports))

emitImportSection(imports) ==
    IF imports = << >> THEN << >>
    ELSE writeSection(SECTION.IMPORT, U32(Len(imports)) \o ImportEntries(imports))

RECURSIVE U32s(_)
U32s(values) ==
    IF values = << >> THEN << >> ELSE U32(Head(values)) \o U32s(Tail(values))

emitFunctionSection(ctx) ==
    IF ctx.funcTypeIndices = << >> THEN << >>
    ELSE writeSection(SECTION.FUNC,
                      U32(Len(ctx.funcTypeIndices)) \o U32s(ctx.funcTypeIndices))

\* exported: a non-empty name that does not start with "$_"
IsExported(f) == f.name # "" /\ ~StartsWith(f.name, "$_")

\* variant that keeps the name as it is
ExportNameKept(name) == name

\* f.name.replace(/^\$/, ""): one leading "$" is dropped
ExportName(name) == IF StartsWith(name, "$") THEN SubSeq(name, 2, Len(name)) ELSE name

\* the exports array built by emitExportSection; localIdx is the 0-based
\* position among the func children
RECURSIVE ExportsOf(_, _, _)
ExportsOf(functions, localIdx, ctx) ==
    IF functions = << >> THEN << >>
    ELSE (IF IsExported(Head(functions))
          THEN <<[name  |-> ExportName(Head(functions).name),
                  kind  |-> KIND.FUNC,
                  index |-> FuncIndex(ctx.importFuncCount, localIdx)]>>
          ELSE << >>)
         \o ExportsOf(Tail(functions), localIdx + 1, ctx)

RECURSIVE ExportEntries(_)
ExportEntries(exports) ==
    IF exports = << >> THEN << >>
    ELSE Name(Head(exports).name) \o U8(Head(exports).kind) \o U32(Head(exports).index)
         \o ExportEntries(Tail(exports))

emitExportSection(nodes, ctx) ==
    LET exports == ExportsOf(FilterType(nodes, "func"), 0, ctx)
    IN  IF exports = << >> THEN << >>
        ELSE writeSection(SECTION.EXPORT, U32(Len(exports)) \o ExportEntries(exports))

\* run-length compression of the locals by value type (count starts at 0 and
\* the first local is counted by the loop)
RECURSIVE CompressLocals(_, _, _)
CompressLocals(locals, currentType, count) ==
    IF locals = << >> THEN <<[count |-> count, type |-> ValTypeByte(currentType)]>>
    ELSE IF Head(locals).valueType = currentType
    THEN CompressLocals(Tail(locals), currentType, count + 1)
    ELSE <<[count |-> count, type |-> ValTypeByte(currentType)]>>
         \o CompressLocals(Tail(locals), Head(locals).valueType, 1)

RECURSIVE LocalEntries(_)
LocalEntries(compressed) ==
    IF compressed = << >> THEN << >>
    ELSE U32(Head(compressed).count) \o U8(Head(compressed).type)
         \o LocalEntries(Tail(compressed))

\* funcBody of one function: locals, instructions, END
FuncBody(f, ctx) ==
    LET compressed == IF f.locals = << >> THEN << >>
                      ELSE CompressLocals(f.locals, f.locals[1].valueType, 0)
    IN  Cat(Ok(U32(Len(compressed)) \o LocalEntries(compressed)),
            Cat(emitNodes(f.children, FunctionContext(f), ctx), Ok(<<11>>)))

RECURSIVE FuncBodies(_, _)
FuncBodies(functions, ctx) ==
    IF functions = << >> THEN Ok(<< >>)
    ELSE LET body == FuncBody(Head(functions), ctx)
         IN  IF ~body.ok THEN body
             ELSE Cat(Ok(U32(Len(body.bytes)) \o body.bytes),
                      FuncBodies(Tail(functions), ctx))

emitCodeSection(functions, ctx) ==
    IF functions = << >> THEN Ok(<< >>)
    ELSE LET bodies == FuncBodies(functions, ctx)
         IN  IF ~bodies.ok THEN bodies
             ELSE Ok(writeSection(SECTION.CODE, U32(Len(functions)) \o bodies.bytes))

Preamble == <<0, 97, 115, 109, 1, 0, 0, 0>>

\* WasmBinaryEmitter.compile
compile(moduleNode) ==
    LET imports   == FilterType(moduleNode.children, "import")
        functions == FilterType(moduleNode.children, "func")
        ctx       == CompilerContext(imports, functions)
    IN  Cat(Ok(Preamble \o emitTypeSection(ctx) \o emitImportSection(imports)
                   \o emitFunctionSection(ctx)
                   \o emitExportSection(moduleNode.children, ctx)),
            emitCodeSection(functions, ctx))

emitBinary(moduleNode) == compile(moduleNode)

-----------------------------------------------------------------------------
(* The remaining instruction builders of src/src/dsl/ast.ts *)

memorySize == [Blank EXCEPT !.type = "memory.size"]
memoryGrow(pages) == [Blank EXCEPT !.type = "memory.grow", !.children = <<pages>>]
memoryCopy(dest, src, size) ==
    [Blank EXCEPT !.type = "memory.copy", !.children = <<dest, src, size>>]
memoryFill(dest, val, size) ==
    [Blank EXCEPT !.type = "memory.fill", !.children = <<dest, val, size>>]

v128Const(bytes) == [Blank EXCEPT !.type = "v128.const", !.value = bytes]

\* i32x4/f32x4 ExtractLane and ReplaceLane
laneOp(type, operands, lane) ==
    [Blank EXCEPT !.type = type, !.value = <<lane>>, !.children = operands]

atomicNotify(addr, count) ==
    [Blank EXCEPT !.type = "atomic.notify", !.offset = 0, !.align = 2,
                  !.children = <<addr, count>>]
atomicWait32(addr, expect, timeout) ==
    [Blank EXCEPT !.type = "atomic.wait", !.op = "i32", !.offset = 0, !.align = 2,
                  !.children = <<addr, expect, timeout>>]
atomicFence == [Blank EXCEPT !.type = "atomic.fence"]
atomicRmw(op, idx, val) ==
    [Blank EXCEPT !.type = "binop", !.op = op, !.offset = 0, !.align = 2,
                  !.children = <<idx, val>>]
i32AtomicCmpxchg(idx, expected, replacement) ==
    [Blank EXCEPT !.type = "unop", !.op = "i32.atomic.rmw.cmpxchg", !.offset = 0,
                  !.align = 2, !.children = <<idx, expected, replacement>>]

\* the operations ast.ts instantiates bin(...) with
BinBuilderOps ==
    {"i32.add", "i32.sub", "i32.mul", "i32.div_s", "i32.div_u", "i32.rem_s", "i32.rem_u",
     "i32.and", "i32.or", "i32.xor", "i32.shl", "i32.shr_s", "i32.shr_u", "i32.eq",
     "i32.ne", "i32.lt_s", "i32.lt_u", "i32.gt_s", "i32.gt_u", "i32.le_s", "i32.le_u",
     "i32.ge_s", "i32.ge_u", "i64.add", "i64.sub", "i64.mul", "i64.div_s", "i64.div_u",
     "i64.rem_s", "i64.rem_u", "i64.and", "i64.or", "i64.xor", "i64.shl", "i64.shr_s",
     "i64.shr_u", "i64.eq", "i64.ne", "i64.lt_s", "i64.lt_u", "i64.gt_s", "i64.gt_u",
     "i64.le_s", "i64.le_u", "i64.ge_s", "i64.ge_u", "f32.add", "f32.sub", "f32.mul",
     "f32.div", "f32.min", "f32.max", "f32.copysign", "f32.eq", "f32.ne", "f32.lt",
     "f32.gt", "f32.le", "f32.ge", "f64.add", "f64.sub", "f64.mul", "f64.div", "f64.min",
     "f64.max", "f64.eq", "f64.ne", "f64.lt", "f64.gt", "f64.le", "f64.ge", "i32x4.add",
     "i32x4.sub", "i32x4.mul", "i32x4.min_s", "i32x4.max_s", "f32x4.add", "f32x4.sub",
     "f32x4.mul", "f32x4.div", "f32x4.min", "f32x4.max"}

\* the operations ast.ts instantiates un(...) with
UnBuilderOps ==
    {"i32.eqz", "i32.clz", "i32.ctz", "i32.popcnt", "i64.eqz", "f32.abs", "f32.neg",
     "f32.ceil", "f32.floor", "f32.trunc", "f32.nearest", "f32.sqrt", "f64.abs", "f64.neg",
     "f64.sqrt", "i32.wrap_i64", "i32.trunc_f32_s", "i32.trunc_f32_u", "i32.trunc_f64_s",
     "i32.trunc_f64_u", "i64.extend_i32_s", "i64.extend_i32_u", "i64.trunc_f32_s",
     "i64.trunc_f32_u", "i64.trunc_f64_s", "i64.trunc_f64_u", "f32.convert_i32_s",
     "f32.convert_i32_u", "f32.convert_i64_s", "f32.convert_i64_u", "f32.demote_f64",
     "f64.convert_i32_s", "f64.convert_i32_u", "f64.convert_i64_s", "f64.convert_i64_u",
     "f64.promote_f32", "i8x16.splat", "i16x8.splat", "i32x4.splat", "i64x2.splat",
     "f32x4.splat", "f64x2.splat"}

\* the memOp builders with the align each passes by default:
\* <<type, default a, number of operands>>
MemBuilderDefaults ==
    {<<"i32.load", 2, 1>>, <<"i64.load", 3, 1>>, <<"f32.load", 2, 1>>, <<"f64.load", 3, 1>>,
     <<"i32.load8_s", 0, 1>>, <<"i32.load8_u", 0, 1>>,
     <<"i32.load16_s", 1, 1>>, <<"i32.load16_u", 1, 1>>,
     <<"i32.store", 2, 2>>, <<"i64.store", 3, 2>>, <<"f32.store", 2, 2>>, <<"f64.store", 3, 2>>,
     <<"i32.store8", 0, 2>>, <<"i32.store16", 1, 2>>,
     <<"v128.load", 4, 1>>, <<"v128.store", 4, 2>>,
     <<"i32.atomic.load", 2, 1>>, <<"i64.atomic.load", 3, 1>>,
     <<"i32.atomic.store", 2, 2>>, <<"i64.atomic.store", 3, 2>>}

AtomicRmwOps ==
    {"i32.atomic.rmw.add", "i32.atomic.rmw.sub", "i32.atomic.rmw.and",
     "i32.atomic.rmw.or", "i32.atomic.rmw.xor", "i32.atomic.rmw.xchg"}

LaneBuilders ==
    {<<"i32x4.extract_lane", 1>>, <<"i32x4.replace_lane", 2>>,
     <<"f32x4.extract_lane", 1>>, <<"f32x4.replace_lane", 2>>}

-----------------------------------------------------------------------------
(* Modules handed to emitBinary *)

\* deepest nesting of block/loop/if structures around a branch
MaxDepth == 3
\* most functions of a generated module
MaxFuncs == 3
\* most function imports of a generated module
MaxImports == 2

Zero == i32Const(0)

RECURSIVE Repeat(_, _)
Repeat(x, n) == IF n = 0 THEN << >> ELSE <<x>> \o Repeat(x, n - 1)

Operands(n) == Repeat(Zero, n)

\* memory and atomic instructions built with the default offset and align
DefaultMemInstrs ==
    {memOp(e[1], 0, e[2], Operands(e[3])) : e \in MemBuilderDefaults}
    \cup {atomicRmw(op, Zero, Zero) : op \in AtomicRmwOps}
    \cup {atomicNotify(Zero, Zero), atomicWait32(Zero, Zero, Zero),
          i32AtomicCmpxchg(Zero, Zero, Zero)}

\* one node from every instruction builder
BuilderInstrs ==
    DefaultMemInstrs
    \cup {bin(op, Zero, Zero) : op \in BinBuilderOps}
    \cup {un(op, Zero) : op \in UnBuilderOps}
    \cup {laneOp(e[1], Operands(e[2]), 1) : e \in LaneBuilders}
    \cup {v128Const(Repeat(0, 16)), atomicFence,
          memorySize, memoryGrow(Zero), memoryCopy(Zero, Zero, Zero),
          memoryFill(Zero, Zero, Zero),
          block("a", <<nop>>), loop("a", <<nop>>), ifNode(Zero, <<nop>>, <<nop>>),
          block("a", <<br("a")>>), block("a", <<brIf("a", Zero)>>),
          block("a", <<brTable(<<"a">>, "a", Zero)>>),
          call("f", << >>), callIndirect(0, 0, << >>, Zero),
          returnNode(<< >>), returnNode(<<Zero>>), unreachable, nop, drop(Zero),
          select(Zero, Zero, Zero),
          i32Const(1), i64Const(1), f32Const(1), f64Const(1),
          localGet("x"), localSet("x", Zero), localTee("x", Zero),
          globalGet("g0"), globalSet("g0", Zero)}

OneFunc(body) ==
    module("m", <<func("f", <<param("p", "i32")>>, << >>, <<local("x", "i32")>>, body)>>)

EmBuilderModules == {OneFunc(<<b>>) : b \in BuilderInstrs}

\* names used by calls, locals and branches: declared ones, digits, others
EmNames == {"f", "p", "x", "a", "nosuch", "3", "$y"}

EmNameModules ==
    {OneFunc(<<s>>) : s \in
        UNION {{call(n, << >>), drop(localGet(n)), localSet(n, Zero), br(n),
                block("a", <<br(n)>>), loop("a", <<brIf(n, Zero), call(n, <<localGet(n)>>)>>)}
               : n \in EmNames}}

\* nested structures around one branch
NestPatterns == {"blocks", "loops", "mixed", "ifs"}

KindAt(pattern, k) ==
    CASE pattern = "blocks" -> "block"
      [] pattern = "loops"  -> "loop"
      [] pattern = "mixed"  -> <<"block", "if", "loop", "else">>[((k - 1) % 4) + 1]
      [] pattern = "ifs"    -> <<"if", "else">>[((k - 1) % 2) + 1]

Structure(kind, name, children) ==
    CASE kind = "block" -> block(name, children)
      [] kind = "loop"  -> loop(name, children)
      [] kind = "if"    -> [ifNode(Zero, children, << >>) EXCEPT !.name = name]
      [] kind = "else"  -> [ifNode(Zero, <<nop>>, children) EXCEPT !.name = name]

BranchKinds == {"br", "br_if", "br_table"}

Branch(kind, label) ==
    CASE kind = "br"       -> br(label)
      [] kind = "br_if"    -> brIf(label, Zero)
      [] kind = "br_table" -> brTable(<<label, "0">>, label, Zero)

\* structures k..Len(names) nested in one another; the branch follows the
\* closed structure p + 1 inside structure p
RECURSIVE Nest(_, _, _, _, _)
Nest(pattern, names, k, p, branch) ==
    Structure(KindAt(pattern, k), names[k],
              (IF k < Len(names) THEN <<Nest(pattern, names, k + 1, p, branch)>>
               ELSE <<nop>>)
              \o (IF k = p THEN <<branch>> ELSE << >>))

\* "" is a structure without a name
NestNames == {"a", "b", "1", ""}

NestLabels == {"a", "b", "1", "0", "zz"}

NestModule(pattern, names, p, kind, label) ==
    OneFunc(<<Nest(pattern, names, 1, p, Branch(kind, label))>>
            \o (IF p = 0 THEN <<Branch(kind, label)>> ELSE << >>))

\* modules with imported functions and several functions calling one another
FuncNames == {"f", "$g", "$_h", "", "7", "$$k"}

FuncImport ==
    [Blank EXCEPT !.type = "import", !.moduleName = "env", !.fieldName = "fn",
                  !.descKind = "func"]

MemImport == importMemory("env", "memory", [min |-> 1, max |-> <<2>>, shared |-> TRUE])

RECURSIVE CallingFuncs(_, _)
CallingFuncs(names, callee) ==
    IF names = << >> THEN << >>
    ELSE <<func(Head(names), << >>, << >>, << >>, <<call(callee, << >>)>>)>>
         \o CallingFuncs(Tail(names), callee)

EmImportLists ==
    {Repeat(FuncImport, n) \o m : n \in 0..MaxImports, m \in {<< >>, <<MemImport>>}}

\* the functions called names, each calling the c-th, with the imports imps
\* before or after them
IndexModule(names, imps, c, importsLast) ==
    module("m", IF importsLast
                THEN CallingFuncs(names, names[c]) \o imps
                ELSE imps \o CallingFuncs(names, names[c]))

-----------------------------------------------------------------------------
(* Idle values of the variables a specification does not use *)

NoRun == [pc |-> 0, i |-> 0, trace |-> << >>, iters |-> 0, fuel |-> 0]

OptIdle ==
    /\ optIn = Blank /\ optLevel = 0 /\ optFactor = 0
    /\ optOut = Blank /\ optOut2 = Blank /\ optPc = "idle"

LpIdle ==
    /\ lpOrig = Blank /\ lpUnrolled = Blank /\ lpFactor = 0 /\ lpStart = 0
    /\ lpPhase = "idle" /\ lpRun = NoRun /\ lpOrigRun = NoRun

NoOutput == [ok |-> FALSE, err |-> "", bytes |-> << >>]

EmIdle == emIn = Blank /\ emOut = NoOutput /\ emPc = "idle"

VecIdle ==
    /\ vecIn = Blank /\ vecType = "" /\ vecSimd = FALSE
    /\ vecOut = [func |-> Blank, width |-> 0, success |-> FALSE] /\ vecPc = "idle"

FnIdle == fnIn = << >> /\ fnOut = << >> /\ fnPc = "idle"

PoolIdle ==
    /\ poolTotal = 0 /\ poolChunk = 0 /\ cursor = 0 /\ workers = << >>
    /\ poolCalls = << >> /\ poolPc = "idle"

ExIdle ==
    /\ exTotal = 0 /\ exOptions = << >> /\ current = 0 /\ exStep = 0
    /\ currentSliceLimit = 0 /\ sliceDuration = 0 /\ exCalls = << >> /\ exPc = "idle"

DslIdle == OptIdle /\ LpIdle /\ EmIdle /\ VecIdle

CacheIdle == wasmModuleCache = << >> /\ ccPending = << >> /\ ccReturned = << >>

HotIdle ==
    /\ lastModuleId = "" /\ wkSlots = << >> /\ wkInst = << >> /\ syncView = 0
    /\ hxExecs = << >> /\ hxRan = {} /\ hxPc = "idle"

AbIdle ==
    /\ abOptions = << >> /\ isAborted = FALSE /\ abRuns = << >> /\ abActive = 0
    /\ hasChannel = FALSE /\ onmessage = 0 /\ portQueue = 0

ExtIdle == CacheIdle /\ HotIdle /\ AbIdle

-----------------------------------------------------------------------------
(* Specification of the optimizer runs *)

OptInit ==
    /\ \/ \E body \in SeqsUpTo(OptBodyStmts, MaxBody), step \in 1..MaxVal :
              optIn = LoopFunc(CountedLoop(body, step))
       \/ \E e \in OptLeaves \cup OptExprs1 \cup OptExprs2 : optIn = ExprFunc(e)
       \/ optIn \in OptDeadFuncs \cup OptModules
    /\ optLevel \in 0..3
    /\ optFactor \in 0..MaxFactor
    /\ (optLevel < 3 => optFactor = 0)
    /\ optOut = Blank
    /\ optOut2 = Blank
    /\ optPc = "init"
    /\ LpIdle /\ EmIdle /\ VecIdle /\ FnIdle /\ PoolIdle /\ ExIdle /\ ExtIdle

\* optimize(node, options)
OptRun ==
    /\ optPc = "init"
    /\ optOut' = optimize(optIn, optLevel, optFactor)
    /\ optPc' = "once"
    /\ UNCHANGED <<optIn, optLevel, optFactor, optOut2, lpVars, emVars, vecVars, fnVars, poolVars, exVars, extVars>>

\* optimize applied to its own output, with the same options
OptRerun ==
    /\ optPc = "once"
    /\ optOut2' = optimize(optOut, optLevel, optFactor)
    /\ optPc' = "twice"
    /\ UNCHANGED <<optIn, optLevel, optFactor, optOut, lpVars, emVars, vecVars, fnVars, poolVars, exVars, extVars>>

OptNext == OptRun \/ OptRerun

SpecOpt == OptInit /\ [][OptNext]_vars


-----------------------------------------------------------------------------
(* Claims about the optimizer *)

\* C1: for every func or module node n and every level L (same unrollFactor),
\* optimize(optimize(n, L), L) is structurally identical to optimize(n, L).
C1_OptimizeIdempotent == optPc = "twice" => optOut2 = optOut

\* the canonical counted loop: br_if first, local.set i (i32.add (local.get i) (const step))
\* penultimate, br to the loop's own label last
IsCountedLoop(lp, step) ==
    /\ lp.type = "loop"
    /\ Len(lp.children) >= 3
    /\ lp.children[1].type = "br_if"
    /\ \E i \in {"i", "x", "n"} :
          lp.children[Len(lp.children) - 1] = localSet(i, bin("i32.add", localGet(i), i32Const(step)))
    /\ lp.children[Len(lp.children)] = br(lp.name)

\* the generated kernels hold their loop as the only child of the block that
\* is the function's second statement
HasLoop(f) ==
    /\ f.type = "func"
    /\ Len(f.children) = 2
    /\ f.children[2].type = "block"
    /\ Len(f.children[2].children) = 1
LoopOf(f) == f.children[2].children[1]

CountEq(seq, x) == Cardinality({i \in 1..Len(seq) : seq[i] = x})

\* the statements of a counted loop between its exit test and its increment
BodyOf(lp) == SubSeq(lp.children, 2, Len(lp.children) - 2)
IncOf(lp) == lp.children[Len(lp.children) - 1]

C8_Case ==
    /\ optPc = "once"
    /\ optLevel = 3
    /\ UnrollFactorOf(optFactor) = 4
    /\ HasLoop(optIn)
    /\ IsCountedLoop(LoopOf(optIn), 1)

-----------------------------------------------------------------------------
(* Execution of a counted loop and of its unrolled form.  The loop's children
   run one at a time under WebAssembly's semantics: br_if / br to the loop's
   own label restart the loop, to any other label leave it, running off the
   end leaves it.  The run records every store and counts the iterations
   (exit tests that did not leave).                                          *)

RECURSIVE Eval(_, _)
Eval(e, i) ==
    LET op == OpOf(e)
    IN  CASE op = "const"     -> NumberOf(e)
          [] op = "local.get" -> i
          [] op = "i32.add"   -> ToInt32(Eval(e.children[1], i) + Eval(e.children[2], i))
          [] op = "i32.sub"   -> ToInt32(Eval(e.children[1], i) - Eval(e.children[2], i))
          [] op = "i32.mul"   -> ToInt32(Eval(e.children[1], i) * Eval(e.children[2], i))
          [] op = "i32.ge_s"  -> IF Eval(e.children[1], i) >= Eval(e.children[2], i) THEN 1 ELSE 0
          [] op = "i32.gt_s"  -> IF Eval(e.children[1], i) > Eval(e.children[2], i) THEN 1 ELSE 0
          [] op = "i32.eq"    -> IF Eval(e.children[1], i) = Eval(e.children[2], i) THEN 1 ELSE 0

\* where a branch to `label` taken inside loop lp continues: 1 restarts, 0 leaves
BranchTarget(lp, label) == IF label = lp.name THEN 1 ELSE 0

\* the run after executing the child of lp at run.pc
ExecChild(lp, run) ==
    LET node == lp.children[run.pc]
        nxt  == IF run.pc = Len(lp.children) THEN 0 ELSE run.pc + 1
        r    == [run EXCEPT !.fuel = @ - 1]
    IN  CASE node.type = "br_if" ->
               IF Eval(node.children[1], run.i) # 0
               THEN [r EXCEPT !.pc = BranchTarget(lp, node.name)]
               ELSE [r EXCEPT !.pc = nxt, !.iters = IF run.pc = 1 THEN @ + 1 ELSE @]
          [] node.type = "br" -> [r EXCEPT !.pc = BranchTarget(lp, node.name)]
          [] node.type = "local.set" ->
               [r EXCEPT !.pc = nxt, !.i = Eval(node.children[1], run.i)]
          [] node.type = "i32.store" ->
               [r EXCEPT !.pc = nxt,
                         !.trace = Append(@, <<node.offset,
                                               Eval(node.children[1], run.i),
                                               Eval(node.children[2], run.i)>>)]
          [] OTHER -> [r EXCEPT !.pc = nxt]

LpBodyStmts == {memOp("i32.store", o, 2, <<localGet("i"), localGet("i")>>) : o \in {0, 4}}

LpLoops ==
    {loop("top",
          <<brIf("out", bin(cmp, localGet("i"), i32Const(n)))>>
          \o body
          \o <<localSet("i", bin("i32.add", localGet("i"), i32Const(step))), br("top")>>) :
        cmp \in {"i32.ge_s", "i32.gt_s", "i32.eq"}, n \in 0..MaxN, step \in 1..MaxStep,
        body \in SeqsUpTo(LpBodyStmts, LpMaxBody)}

\* enough steps for every run that ends
LpFuel == (MaxN + MaxFactor + 3) * (MaxFactor * (LpMaxBody + 1) + 2)

StartRun(start) == [pc |-> 1, i |-> start, trace |-> << >>, iters |-> 0, fuel |-> LpFuel]

LpInit ==
    /\ lpOrig \in LpLoops
    /\ lpFactor \in 1..MaxFactor
    /\ lpUnrolled = loopUnrollPass(lpOrig, lpFactor)
    /\ lpStart \in 0..MaxStart
    /\ lpPhase = "orig"
    /\ lpRun = StartRun(lpStart)
    /\ lpOrigRun = NoRun
    /\ OptIdle /\ EmIdle /\ VecIdle /\ FnIdle /\ PoolIdle /\ ExIdle /\ ExtIdle

\* one instruction of the original loop
LpStepOrig ==
    /\ lpPhase = "orig" /\ lpRun.pc # 0 /\ lpRun.fuel > 0
    /\ lpRun' = ExecChild(lpOrig, lpRun)
    /\ UNCHANGED <<lpOrig, lpUnrolled, lpFactor, lpStart, lpPhase, lpOrigRun, optVars, emVars, vecVars, fnVars, poolVars, exVars, extVars>>

\* the original loop has been left: run the unrolled loop from the same start
LpSwitch ==
    /\ lpPhase = "orig" /\ lpRun.pc = 0
    /\ lpOrigRun' = lpRun
    /\ lpRun' = StartRun(lpStart)
    /\ lpPhase' = "unrolled"
    /\ UNCHANGED <<lpOrig, lpUnrolled, lpFactor, lpStart, optVars, emVars, vecVars, fnVars, poolVars, exVars, extVars>>

\* one instruction of the unrolled loop
LpStepUnrolled ==
    /\ lpPhase = "unrolled" /\ lpRun.pc # 0 /\ lpRun.fuel > 0
    /\ lpRun' = ExecChild(lpUnrolled, lpRun)
    /\ UNCHANGED <<lpOrig, lpUnrolled, lpFactor, lpStart, lpPhase, lpOrigRun, optVars, emVars, vecVars, fnVars, poolVars, exVars, extVars>>

\* the unrolled loop has been left
LpFinish ==
    /\ lpPhase = "unrolled" /\ lpRun.pc = 0
    /\ lpPhase' = "done"
    /\ UNCHANGED <<lpOrig, lpUnrolled, lpFactor, lpStart, lpRun, lpOrigRun, optVars, emVars, vecVars, fnVars, poolVars, exVars, extVars>>

\* a run that is still going when the step budget is spent
LpGiveUp ==
    /\ lpPhase \in {"orig", "unrolled"} /\ lpRun.pc # 0 /\ lpRun.fuel = 0
    /\ lpPhase' = IF lpPhase = "orig" THEN "origRunsOn" ELSE "unrolledRunsOn"
    /\ UNCHANGED <<lpOrig, lpUnrolled, lpFactor, lpStart, lpRun, lpOrigRun, optVars, emVars, vecVars, fnVars, poolVars, exVars, extVars>>

LpNext == LpStepOrig \/ LpSwitch \/ LpStepUnrolled \/ LpFinish \/ LpGiveUp

SpecLoop == LpInit /\ [][LpNext]_vars

\* C7: when the number of iterations the original counted loop executes is a
\* multiple of the unroll factor, the unrolled loop ends, having performed the
\* same stores (same values of i, same order) and leaving the same final i.
C7_UnrollEquivalent ==
    /\ (lpPhase = "done" /\ lpOrigRun.iters % lpFactor = 0) =>
          /\ lpRun.trace = lpOrigRun.trace
          /\ lpRun.i = lpOrigRun.i
          /\ lpRun.iters * lpFactor = lpOrigRun.iters
    /\ lpPhase = "unrolledRunsOn" => lpOrigRun.iters % lpFactor # 0

C7_Witness ==
    /\ lpPhase = "done"
    /\ lpFactor = 2
    /\ lpOrigRun.iters = 4
    /\ Len(lpOrigRun.trace) = 4
    /\ lpRun.trace = lpOrigRun.trace
    /\ lpUnrolled # lpOrig


-----------------------------------------------------------------------------
(* Auto-vectorizer: src/unnamed/part_000, src/src/dsl/simd.ts *)

v128Load(idx, o, a) == memOp("v128.load", o, a, <<idx>>)
v128Store(idx, val, o, a) == memOp("v128.store", o, a, <<idx, val>>)
f32Load(idx, a) == memOp("f32.load", 0, a, <<idx>>)
i32Load(idx, a) == memOp("i32.load", 0, a, <<idx>>)
f32Store(idx, val, a) == memOp("f32.store", 0, a, <<idx, val>>)

\* SIMD_OP_MAP as a set of <<scalar op, vector op>> pairs
SIMD_OP_MAP ==
    {<<"i32.add", "i32x4.add">>, <<"i32.sub", "i32x4.sub">>, <<"i32.mul", "i32x4.mul">>,
     <<"f32.add", "f32x4.add">>, <<"f32.sub", "f32x4.sub">>, <<"f32.mul", "f32x4.mul">>,
     <<"f32.div", "f32x4.div">>, <<"f32.min", "f32x4.min">>, <<"f32.max", "f32x4.max">>,
     <<"i32.and", "v128.and">>, <<"i32.or", "v128.or">>, <<"i32.xor", "v128.xor">>,
     <<"i32.not", "v128.not">>}

SimdMapped(op) == \E e \in SIMD_OP_MAP : e[1] = op
SimdOpFor(op) == (CHOOSE e \in SIMD_OP_MAP : e[1] = op)[2]

getSimdAlignment(scalarAlign) == IF scalarAlign = 1 THEN 0 ELSE 4

RECURSIVE transformNode(_, _)
RECURSIVE transformNodes(_, _)
transformNodes(nodes, type) ==
    IF nodes = << >> THEN << >>
    ELSE <<transformNode(Head(nodes), type)>> \o transformNodes(Tail(nodes), type)

transformNode(node, type) ==
    LET op == OpOf(node)
    IN  IF op = type \o ".load" THEN
            IF Len(node.children) < 1 THEN node
            ELSE v128Load(transformNode(node.children[1], type), node.offset,
                          getSimdAlignment(node.align))
        ELSE IF op = type \o ".store" THEN
            IF Len(node.children) < 2 THEN node
            ELSE v128Store(transformNode(node.children[1], type),
                           transformNode(node.children[2], type),
                           node.offset, getSimdAlignment(node.align))
        ELSE IF SimdMapped(op) THEN
            IF op = "i32.add" /\ Len(node.children) = 2
                  /\ node.children[2].type = "const" /\ node.children[2].value = <<1>>
            THEN [Blank EXCEPT !.type = "binop", !.op = "i32.add",
                     !.children = <<transformNode(node.children[1], type),
                                    [node.children[2] EXCEPT !.value = <<4>>]>>]
            ELSE IF type = "f32" /\ StartsWith(op, "i32") THEN node
            ELSE [Blank EXCEPT !.type = node.type, !.op = SimdOpFor(op),
                               !.children = transformNodes(node.children, type)]
        ELSE IF node.type = "const" /\ node.valueType = type THEN
            [Blank EXCEPT !.type = "unop",
                          !.op = IF type = "i32" THEN "i32x4.splat" ELSE "f32x4.splat",
                          !.children = <<node>>]
        ELSE [node EXCEPT !.children = transformNodes(node.children, type)]

\* hasVectorizableOps: the search visits a node, then its children, then its
\* following siblings; it never looks into consequent / alternate
RECURSIVE VecSearch(_, _)
VecSearch(nodes, type) ==
    IF nodes = << >> THEN FALSE
    ELSE LET op == OpOf(Head(nodes))
         IN  \/ (StartsWith(op, type) /\ SimdMapped(op))
             \/ op = type \o ".load"
             \/ op = type \o ".store"
             \/ VecSearch(Head(nodes).children, type)
             \/ VecSearch(Tail(nodes), type)

hasVectorizableOps(f, type) == VecSearch(f.children, type)

\* options.targetType || "f32"
TargetTypeOf(targetType) == IF targetType = "" THEN "f32" ELSE targetType

autoVectorize(scalarFunc, targetType, simdSupported) ==
    IF ~simdSupported THEN [func |-> scalarFunc, width |-> 1, success |-> FALSE]
    ELSE IF ~hasVectorizableOps(scalarFunc, TargetTypeOf(targetType))
    THEN [func |-> scalarFunc, width |-> 1, success |-> FALSE]
    ELSE [func |-> [scalarFunc EXCEPT
                       !.name = scalarFunc.name \o "_simd",
                       !.children = transformNodes(scalarFunc.children, TargetTypeOf(targetType))],
          width |-> 4, success |-> TRUE]

(* Inputs of the vectorizer runs *)

VecLeaves == {localGet("p"), i32Const(1), f32Const(1)}

VecExprs ==
    VecLeaves
    \cup {f32Load(localGet("p"), a) : a \in {1, 2}}
    \cup {i32Load(localGet("p"), 2)}
    \cup {bin(op, a, b) : op \in {"f32.add", "i32.add", "i32.and", "i32.lt_s", "f32.lt"},
                          a \in {localGet("p"), f32Const(1)}, b \in {i32Const(1), localGet("p")}}

VecStmts ==
    {localSet("x", e) : e \in VecExprs}
    \cup {f32Store(localGet("p"), e, 2) : e \in {f32Const(1), f32Load(localGet("p"), 2), localGet("p")}}
    \cup {i32Store(localGet("p"), localGet("p"))}

VecBodies ==
    {<<s>> : s \in VecStmts}
    \cup {<<block("b", <<s>>)>> : s \in VecStmts}
    \cup {<<ifNode(c, <<s>>, << >>)>> : c \in {localGet("p"), bin("i32.lt_s", localGet("p"), i32Const(1))},
                                         s \in VecStmts}
    \cup {<<ifNode(localGet("p"), << >>, <<s>>)>> : s \in VecStmts}
    \cup {<<ifNode(bin("f32.lt", f32Load(localGet("p"), 2), f32Const(1)), <<nop>>, <<nop>>)>>}

VecInputs ==
    {func("map", <<param("p", "i32")>>, << >>, <<local("x", "f32")>>, body) : body \in VecBodies}

VecInit ==
    /\ vecIn \in VecInputs
    /\ vecType \in {"", "f32", "i32"}
    /\ vecSimd \in BOOLEAN
    /\ vecOut = [func |-> Blank, width |-> 0, success |-> FALSE]
    /\ vecPc = "init"
    /\ OptIdle /\ LpIdle /\ EmIdle /\ FnIdle /\ PoolIdle /\ ExIdle /\ ExtIdle

\* autoVectorize(scalarFunc, options)
VecRun ==
    /\ vecPc = "init"
    /\ vecOut' = autoVectorize(vecIn, vecType, vecSimd)
    /\ vecPc' = "done"
    /\ UNCHANGED <<vecIn, vecType, vecSimd, optVars, lpVars, emVars, fnVars, poolVars, exVars, extVars>>

VecNext == VecRun

SpecVec == VecInit /\ [][VecNext]_vars

\* whether a node anywhere in the tree (children, consequent, alternate) is a
\* T.load, a T.store or a mapped operation of type T
RECURSIVE AnyVectorizable(_, _)
AnyVectorizable(nodes, type) ==
    \E k \in 1..Len(nodes) :
        \/ OpOf(nodes[k]) \in {type \o ".load", type \o ".store"}
        \/ (StartsWith(OpOf(nodes[k]), type) /\ SimdMapped(OpOf(nodes[k])))
        \/ AnyVectorizable(nodes[k].children, type)
        \/ AnyVectorizable(nodes[k].consequent, type)
        \/ AnyVectorizable(nodes[k].alternate, type)

\* C6: autoVectorize returns the input itself with success=false, width=1
\* exactly when SIMD is unsupported or no node of the body tree (children and
\* the consequent/alternate of if nodes) is a T.load, T.store or mapped
\* operation of type T; otherwise success=true, width=4, name f.name + "_simd".
C6_VectorizeExactlyWhen ==
    vecPc = "done" =>
        IF ~vecSimd \/ ~AnyVectorizable(vecIn.children, TargetTypeOf(vecType))
        THEN vecOut = [func |-> vecIn, width |-> 1, success |-> FALSE]
        ELSE /\ vecOut.success /\ vecOut.width = 4
             /\ vecOut.func.name = vecIn.name \o "_simd"
             /\ vecOut.func # vecIn

-----------------------------------------------------------------------------
(* Specification of emitBinary *)

EmInit ==
    /\ \/ emIn \in EmBuilderModules \cup EmNameModules
       \/ \E pattern \in NestPatterns, names \in SeqsUpTo(NestNames, MaxDepth) \ {<< >>},
             kind \in BranchKinds, label \in NestLabels :
              \E p \in 0..Len(names) : emIn = NestModule(pattern, names, p, kind, label)
       \/ \E names \in SeqsUpTo(FuncNames, MaxFuncs) \ {<< >>}, imps \in EmImportLists,
             importsLast \in BOOLEAN :
              \E c \in 1..Len(names) : emIn = IndexModule(names, imps, c, importsLast)
    /\ emOut = NoOutput
    /\ emPc = "init"
    /\ OptIdle /\ LpIdle /\ VecIdle /\ FnIdle /\ PoolIdle /\ ExIdle /\ ExtIdle

\* emitBinary(module): the bytes, or the error the compile stopped with
Emit ==
    /\ emPc = "init"
    /\ emOut' = emitBinary(emIn)
    /\ emPc' = "done"
    /\ UNCHANGED <<emIn, optVars, lpVars, vecVars, fnVars, poolVars, exVars, extVars>>

EmNext == Emit

SpecEmit == EmInit /\ [][EmNext]_vars

-----------------------------------------------------------------------------
(* Reading an emitted binary back *)

\* unsigned LEB128 at position pos: the value and the position after it
RECURSIVE ReadU(_, _)
ReadU(bytes, pos) ==
    IF bytes[pos] < 128 THEN [value |-> bytes[pos], next |-> pos + 1]
    ELSE LET r == ReadU(bytes, pos + 1)
         IN  [value |-> (bytes[pos] - 128) + 128 * r.value, next |-> r.next]

\* the sections that follow the 8-byte preamble
RECURSIVE SectionsFrom(_, _)
SectionsFrom(bytes, pos) ==
    IF pos > Len(bytes) THEN << >>
    ELSE LET size == ReadU(bytes, pos + 1)
         IN  <<[id |-> bytes[pos],
                payload |-> SubSeq(bytes, size.next, size.next + size.value - 1)]>>
             \o SectionsFrom(bytes, size.next + size.value)

HasSection(bytes, id) ==
    \E i \in 1..Len(SectionsFrom(bytes, 9)) : SectionsFrom(bytes, 9)[i].id = id

PayloadOf(bytes, id) ==
    LET ss == SectionsFrom(bytes, 9)
    IN  IF \E i \in 1..Len(ss) : ss[i].id = id
        THEN ss[CHOOSE i \in 1..Len(ss) : ss[i].id = id].payload
        ELSE << >>

\* entries of an export section payload
RECURSIVE ReadExports(_, _, _)
ReadExports(p, pos, n) ==
    IF n = 0 THEN << >>
    ELSE LET len  == ReadU(p, pos)
             kpos == len.next + len.value
             idx  == ReadU(p, kpos + 1)
         IN  <<[name  |-> SubSeq(p, len.next, kpos - 1),
                kind  |-> p[kpos],
                index |-> idx.value]>>
             \o ReadExports(p, idx.next, n - 1)

DecodedExports(bytes) ==
    LET p == PayloadOf(bytes, 7)
    IN  IF p = << >> THEN << >> ELSE ReadExports(p, ReadU(p, 1).next, ReadU(p, 1).value)

\* function bodies of a code section payload
RECURSIVE ReadBodies(_, _, _)
ReadBodies(p, pos, n) ==
    IF n = 0 THEN << >>
    ELSE LET size == ReadU(p, pos)
         IN  <<SubSeq(p, size.next, size.next + size.value - 1)>>
             \o ReadBodies(p, size.next + size.value, n - 1)

DecodedBodies(bytes) ==
    LET p == PayloadOf(bytes, 10)
    IN  IF p = << >> THEN << >> ELSE ReadBodies(p, ReadU(p, 1).next, ReadU(p, 1).value)

\* position of the first instruction of a body: after the local declarations
RECURSIVE SkipLocals(_, _, _)
SkipLocals(body, pos, n) ==
    IF n = 0 THEN pos ELSE SkipLocals(body, ReadU(body, pos).next + 1, n - 1)

CodeStart(body) == SkipLocals(body, ReadU(body, 1).next, ReadU(body, 1).value)

RECURSIVE ReadIndices(_, _, _, _)
ReadIndices(code, pos, n, op) ==
    IF n = 0 THEN [imms |-> << >>, next |-> pos]
    ELSE LET v == ReadU(code, pos)
             r == ReadIndices(code, v.next, n - 1, op)
         IN  [imms |-> <<[op |-> op, imm |-> v.value]>> \o r.imms, next |-> r.next]

\* the index immediates of the branches (12 br, 13 br_if, 14 br_table), calls
\* (16) and local accesses (32..34) of an instruction stream made of these,
\* block/loop/if/else/end, nop, unreachable, return, drop, select and i32.const
RECURSIVE Disassemble(_, _)
Disassemble(code, pos) ==
    IF pos > Len(code) THEN << >>
    ELSE LET op == code[pos]
         IN  CASE op \in {2, 3, 4} -> Disassemble(code, pos + 2)
               [] op = 65 -> Disassemble(code, ReadU(code, pos + 1).next)
               [] op \in {12, 13, 16, 32, 33, 34} ->
                      <<[op |-> op, imm |-> ReadU(code, pos + 1).value]>>
                      \o Disassemble(code, ReadU(code, pos + 1).next)
               [] op = 14 ->
                      LET n == ReadU(code, pos + 1)
                          r == ReadIndices(code, n.next, n.value + 1, 14)
                      IN  r.imms \o Disassemble(code, r.next)
               [] OTHER -> Disassemble(code, pos + 1)

RECURSIVE ImmsOf(_, _)
ImmsOf(instrs, ops) ==
    IF instrs = << >> THEN << >>
    ELSE (IF Head(instrs).op \in ops THEN <<Head(instrs).imm>> ELSE << >>)
         \o ImmsOf(Tail(instrs), ops)

BranchImms(body) == ImmsOf(Disassemble(body, CodeStart(body)), {12, 13, 14})
CallImms(body)   == ImmsOf(Disassemble(body, CodeStart(body)), {16})

\* node types whose encoding Disassemble reads
PlainTypes ==
    {"block", "loop", "if", "nop", "unreachable", "return", "drop", "select",
     "br", "br_if", "br_table", "call", "local.get", "local.set", "local.tee"}

RECURSIVE IsPlain(_)
IsPlain(nodes) ==
    \A k \in 1..Len(nodes) :
        /\ \/ nodes[k].type \in PlainTypes
           \/ (nodes[k].type = "const" /\ nodes[k].valueType = "i32")
        /\ IsPlain(nodes[k].children)
        /\ IsPlain(nodes[k].consequent)
        /\ IsPlain(nodes[k].alternate)

FuncsOf(m) == SelectSeq(m.children, LAMBDA c : c.type = "func")

Range(seq) == {seq[i] : i \in 1..Len(seq)}

-----------------------------------------------------------------------------
(* Claims about emitBinary *)

FuncNamesOf(m) == {FuncsOf(m)[k].name : k \in 1..Len(FuncsOf(m))} \ {""}

LocalNamesOf(f) == {d.name : d \in Range(f.params) \cup Range(f.locals)} \ {""}

Declared(name, scope) == name \in scope \/ IsDigits(name)

\* some call, local access or branch under nodes names something that is
\* neither declared in its scope nor a string of digits; path holds the names
\* of the enclosing structures
RECURSIVE Undeclared(_, _, _, _)
Undeclared(nodes, funcNames, localNames, path) ==
    \E k \in 1..Len(nodes) :
        LET n     == nodes[k]
            inner == IF n.type \in ControlTypes THEN Append(path, n.name) ELSE path
        IN  \/ n.type = "call" /\ ~Declared(n.name, funcNames)
            \/ n.type \in {"local.get", "local.set", "local.tee"}
               /\ ~Declared(n.name, localNames)
            \/ n.type \in {"br", "br_if"} /\ ~Declared(n.name, Range(path))
            \/ n.type = "br_table"
               /\ \E l \in Range(n.labels) \cup {n.name} : ~Declared(l, Range(path))
            \/ Undeclared(IF n.type = "if" THEN SubSeq(n.children, 1, 1) ELSE n.children,
                          funcNames, localNames,
                          IF n.type = "if" THEN path ELSE inner)
            \/ Undeclared(n.consequent, funcNames, localNames, inner)
            \/ Undeclared(n.alternate, funcNames, localNames, inner)

HasUndeclaredName(m) ==
    \E k \in 1..Len(FuncsOf(m)) :
        Undeclared(FuncsOf(m)[k].children, FuncNamesOf(m),
                   LocalNamesOf(FuncsOf(m)[k]), << >>)

\* C2: emitBinary aborts with an error and returns no bytes whenever a call's
\* target name, a local's name or a branch label is neither declared in scope
\* nor a string of decimal digits.
C2_AbortsOnUndeclaredName ==
    (emPc = "done" /\ HasUndeclaredName(emIn)) => (~emOut.ok /\ emOut.bytes = << >>)

\* C3: a function body made of one node returned by an instruction builder is
\* never rejected with "Unknown opcode": the node's op key has an opcode entry.
C3_BuildersHaveOpcodes ==
    (emPc = "done" /\ emIn \in EmBuilderModules) => emOut.err # "Unknown opcode"

\* depth a branch to label must be encoded with: the number of enclosing
\* structures strictly inside the nearest enclosing one of that name, else the
\* number the digits spell
NearestNamed(path, label) ==
    CHOOSE i \in 1..Len(path) :
        path[i] = label /\ \A j \in 1..Len(path) : path[j] = label => j <= i

ExpectedDepth(path, label) ==
    IF label \in Range(path)
    THEN Cardinality({j \in 1..Len(path) : j > NearestNamed(path, label)})
    ELSE ParseInt(label)

RECURSIVE ExpectedDepths(_, _)
ExpectedDepthsOf(n, path) ==
    LET inner == Append(path, n.name)
    IN  CASE n.type \in {"block", "loop"} -> ExpectedDepths(n.children, inner)
          [] n.type = "if" ->
                 ExpectedDepths(SubSeq(n.children, 1, 1), path)
                 \o ExpectedDepths(n.consequent, inner)
                 \o ExpectedDepths(n.alternate, inner)
          [] n.type \in {"br", "br_if"} ->
                 ExpectedDepths(n.children, path) \o <<ExpectedDepth(path, n.name)>>
          [] n.type = "br_table" ->
                 ExpectedDepths(n.children, path)
                 \o [i \in 1..Len(n.labels) |-> ExpectedDepth(path, n.labels[i])]
                 \o <<ExpectedDepth(path, n.name)>>
          [] OTHER -> ExpectedDepths(n.children, path)

ExpectedDepths(nodes, path) ==
    IF nodes = << >> THEN << >>
    ELSE ExpectedDepthsOf(Head(nodes), path) \o ExpectedDepths(Tail(nodes), path)

\* some branch under nodes names neither an enclosing structure nor digits
RECURSIVE UnresolvedBranch(_, _)
UnresolvedBranch(nodes, path) ==
    \E k \in 1..Len(nodes) :
        LET n     == nodes[k]
            inner == Append(path, n.name)
        IN  \/ n.type \in {"br", "br_if"} /\ ~Declared(n.name, Range(path))
            \/ n.type = "br_table"
               /\ \E l \in Range(n.labels) \cup {n.name} : ~Declared(l, Range(path))
            \/ n.type \in {"block", "loop"} /\ UnresolvedBranch(n.children, inner)
            \/ n.type = "if"
               /\ \/ UnresolvedBranch(SubSeq(n.children, 1, 1), path)
                  \/ UnresolvedBranch(n.consequent, inner)
                  \/ UnresolvedBranch(n.alternate, inner)
            \/ n.type \notin ControlTypes /\ UnresolvedBranch(n.children, path)

\* every function is made of plain nodes whose branches all name an enclosing
\* structure or digits
BranchesResolvable(m) ==
    \A k \in 1..Len(FuncsOf(m)) :
        /\ IsPlain(FuncsOf(m)[k].children)
        /\ ~UnresolvedBranch(FuncsOf(m)[k].children, << >>)

\* C4: a branch naming an enclosing block/loop/if is encoded with the number
\* of enclosing structures strictly inside the nearest enclosing structure of
\* that name (0 = innermost); a label matching no enclosing name but made of
\* digits is encoded as that integer.  The names of exited structures are gone.
C4_BranchDepth ==
    (emPc = "done" /\ BranchesResolvable(emIn)) =>
        /\ emOut.ok
        /\ \A k \in 1..Len(FuncsOf(emIn)) :
               BranchImms(DecodedBodies(emOut.bytes)[k])
                   = ExpectedDepths(FuncsOf(emIn)[k].children, << >>)

\* the branch follows a closed inner structure that carried the same name as
\* its target, two levels up
C4_Witness ==
    /\ emPc = "done" /\ BranchesResolvable(emIn) /\ emOut.ok
    /\ emIn = OneFunc(<<block("a", <<block("b", <<block("a", <<nop>>), br("a")>>)>>)>>)
    /\ BranchImms(DecodedBodies(emOut.bytes)[1]) = <<1>>

\* number of imports whose desc.kind is func
ImportedFuncCount(m) ==
    Cardinality({i \in 1..Len(m.children) :
                     m.children[i].type = "import" /\ m.children[i].descKind = "func"})

DistinctFuncNames(m) ==
    \A i, j \in 1..Len(FuncsOf(m)) : i # j => FuncsOf(m)[i].name # FuncsOf(m)[j].name

\* 0-based position among the func children of the function called name
OrdinalOf(m, name) == (CHOOSE k \in 1..Len(FuncsOf(m)) : FuncsOf(m)[k].name = name) - 1

\* a func with a name that does not begin with "$_"
HasExportEntry(f) == f.name # "" /\ ~(Len(f.name) >= 2 /\ SubSeq(f.name, 1, 2) = "$_")

\* 0-based positions of the functions that get an export entry, in order
ExportedOrdinals(m) ==
    LET ks == SelectSeq([k \in 1..Len(FuncsOf(m)) |-> k],
                        LAMBDA k : HasExportEntry(FuncsOf(m)[k]))
    IN  [j \in 1..Len(ks) |-> ks[j] - 1]

\* target names of the calls under nodes, in the order they are emitted
RECURSIVE CallNames(_)
CallNames(nodes) ==
    IF nodes = << >> THEN << >>
    ELSE LET n == Head(nodes)
         IN  (IF n.type = "if"
              THEN CallNames(SubSeq(n.children, 1, 1)) \o CallNames(n.consequent)
                   \o CallNames(n.alternate)
              ELSE CallNames(n.children))
             \o (IF n.type = "call" THEN <<n.name>> ELSE << >>)
             \o CallNames(Tail(nodes))

\* C5: in a module whose functions have distinct names, the index in a
\* function's export entry and the index of every call naming the function
\* equal the number of func imports plus the function's position among the
\* func children.
C5_FunctionIndex ==
    (/\ emPc = "done" /\ emOut.ok /\ DistinctFuncNames(emIn)
     /\ \A k \in 1..Len(FuncsOf(emIn)) : IsPlain(FuncsOf(emIn)[k].children)) =>
        /\ Len(DecodedExports(emOut.bytes)) = Len(ExportedOrdinals(emIn))
        /\ \A j \in 1..Len(ExportedOrdinals(emIn)) :
               DecodedExports(emOut.bytes)[j].index
                   = ImportedFuncCount(emIn) + ExportedOrdinals(emIn)[j]
        /\ \A k \in 1..Len(FuncsOf(emIn)) :
               LET names == CallNames(FuncsOf(emIn)[k].children)
                   imms  == CallImms(DecodedBodies(emOut.bytes)[k])
               IN  /\ Len(imms) = Len(names)
                   /\ \A i \in 1..Len(names) :
                          names[i] \in FuncNamesOf(emIn) =>
                              imms[i] = ImportedFuncCount(emIn) + OrdinalOf(emIn, names[i])

\* two imported functions, an import of another kind, three functions, the
\* first not exported, all calling the third
C5_Witness ==
    /\ emPc = "done" /\ emOut.ok /\ DistinctFuncNames(emIn)
    /\ ImportedFuncCount(emIn) = 2
    /\ \E i \in 1..Len(emIn.children) : emIn.children[i].descKind = "memory"
    /\ Len(FuncsOf(emIn)) = 3
    /\ FuncsOf(emIn)[1].name = "$_h"
    /\ CallNames(FuncsOf(emIn)[1].children) = <<FuncsOf(emIn)[3].name>>
    /\ CallImms(DecodedBodies(emOut.bytes)[1]) = <<4>>
    /\ Len(DecodedExports(emOut.bytes)) = 2
    /\ DecodedExports(emOut.bytes)[2].index = 4

\* memarg alignment byte of a body that ends with a memory instruction whose
\* align and offset take one byte each
LastMemargAlign(body) == body[Len(body) - 2]

\* log2 of the natural alignment of the access an operation makes
NaturalAlignLog2(opKey) ==
    CASE StartsWith(opKey, "v128") -> 4
      [] ~StartsWith(opKey, "v128") /\ Includes(opKey, "8") -> 0
      [] Includes(opKey, "16") -> 1
      [] ~Includes(opKey, "8") /\ ~Includes(opKey, "16")
         /\ (StartsWith(opKey, "i64") \/ StartsWith(opKey, "f64")) -> 3
      [] OTHER -> 2

\* C9: for a load, store or atomic access built with the builder's default
\* align, the alignment exponent written in the memarg is log2 of the natural
\* alignment of the access width (0, 1, 2, 3, 4 for 8, 16, 32, 64, 128 bits).
C9_DefaultAlignExponent ==
    (emPc = "done" /\ emIn \in {OneFunc(<<b>>) : b \in DefaultMemInstrs}) =>
        /\ emOut.ok
        /\ LastMemargAlign(DecodedBodies(emOut.bytes)[1])
               = NaturalAlignLog2(OpOf(emIn.children[1].children[1]))

\* names the export section must list: the functions with an export entry, in
\* order, without one leading "$"
RECURSIVE ExpectedExportNames(_)
ExpectedExportNames(functions) ==
    IF functions = << >> THEN << >>
    ELSE LET nm == Head(functions).name
         IN  (IF HasExportEntry(Head(functions))
              THEN <<IF SubSeq(nm, 1, 1) = "$" THEN SubSeq(nm, 2, Len(nm)) ELSE nm>>
              ELSE << >>)
             \o ExpectedExportNames(Tail(functions))

\* C10: the export section has one function entry for every func whose name is
\* present and does not begin with "$_", in declaration order, under the name
\* with one leading "$" removed, and no entry for a func beginning with "$_".
C10_ExportEntries ==
    (emPc = "done" /\ emOut.ok) =>
        LET exports == DecodedExports(emOut.bytes)
            names   == ExpectedExportNames(FuncsOf(emIn))
        IN  /\ Len(exports) = Len(names)
            /\ \A j \in 1..Len(names) :
                   exports[j].name = Utf8(names[j]) /\ exports[j].kind = 0

C10_Witness ==
    /\ emPc = "done" /\ emOut.ok
    /\ [k \in 1..Len(FuncsOf(emIn)) |-> FuncsOf(emIn)[k].name] = <<"$g", "$_h", "f">>
    /\ Len(DecodedExports(emOut.bytes)) = 2
    /\ [j \in 1..2 |-> DecodedExports(emOut.bytes)[j].name] = <<Utf8("g"), Utf8("f")>>

-----------------------------------------------------------------------------
(* LEB128 on the full 32- and 64-bit ranges: src/src/dsl/binary_encoding.ts  *)
(*                                                                           *)
(* A wide integer is <<h0, h1, h2>> standing for h0 + 2^21*h1 + 2^42*h2 with *)
(* h0, h1 in 0..2^21-1 and h2 signed: every integer of [-2^63, 2^64) has     *)
(* exactly one such form, where a machine integer of the checker has not.    *)

\* largest offset d of the written values  +-2^k + d  from a power of two
LebMaxDelta == 2

\* carries and borrows propagated upward
WideNorm(w) ==
    LET h0 == w[1] % Pow2(21)
        c0 == (w[1] - h0) \div Pow2(21)
        h1 == (w[2] + c0) % Pow2(21)
        c1 == (w[2] + c0 - h1) \div Pow2(21)
    IN  <<h0, h1, w[3] + c1>>

\* sign * 2^k + d
WideOf(sign, k, d) ==
    WideNorm(IF k < 21 THEN <<sign * Pow2(k) + d, 0, 0>>
             ELSE IF k < 42 THEN <<d, sign * Pow2(k - 21), 0>>
             ELSE <<d, 0, sign * Pow2(k - 42)>>)

\* val < 0, 2^lo <= val, val < 2^hi for wide val
WideNeg(w) == w[3] < 0
WideBelowPow2(w, k) ==
    IF k < 21 THEN w[3] <= 0 /\ (w[3] < 0 \/ (w[2] = 0 /\ w[1] < Pow2(k)))
    ELSE IF k < 42 THEN w[3] <= 0 /\ (w[3] < 0 \/ w[2] < Pow2(k - 21))
    ELSE w[3] < Pow2(k - 42)
WideAtLeastMinusPow2(w, k) ==
    IF k < 21 THEN w[3] >= -1 /\ (w[3] >= 0 \/ (w[2] = Pow2(21) - 1 /\ w[1] >= Pow2(21) - Pow2(k)))
    ELSE IF k < 42 THEN w[3] >= -1 /\ (w[3] >= 0 \/ w[2] >= Pow2(21) - Pow2(k - 21))
    ELSE w[3] >= -Pow2(k - 42)

\* the value is a machine integer of the checker: -2^31 <= val < 2^31
WideFits(w) == WideBelowPow2(w, 31) /\ WideAtLeastMinusPow2(w, 31)
WideToInt(w) ==
    IF w[3] = 0 THEN w[1] + Pow2(21) * w[2]
    ELSE w[1] + Pow2(21) * (w[2] - Pow2(21))
IntToWide(v) == WideNorm(<<v, 0, 0>>)

\* val & 0x7f and val >> 7 (BigInt) / v >>> 7 (a non-negative number)
WideLow7(w) == w[1] % 128
WideShr7(w) ==
    LET top == w[3] % 128
    IN  <<w[1] \div 128 + (w[2] % 128) * Pow2(14),
          w[2] \div 128 + top * Pow2(14),
          (w[3] - top) \div 128>>

\* BinaryWriter.u32 on 0 <= v < 2^32: while v does not fit a machine integer
\* v >>> 7 is not 0 and the loop continues
RECURSIVE U32Full(_)
U32Full(w) ==
    IF WideFits(w) THEN U32(WideToInt(w))
    ELSE <<WideLow7(w) + 128>> \o U32Full(WideShr7(w))

\* BinaryWriter.s64 on -2^63 <= v < 2^63: while val does not fit a machine
\* integer val >> 7n is neither 0n nor -1n and the loop continues
RECURSIVE S64Full(_)
S64Full(w) ==
    IF WideFits(w) THEN S64(WideToInt(w))
    ELSE <<WideLow7(w) + 128>> \o S64Full(WideShr7(w))

\* the writer called on a wide value
LebWrite(kind, w) ==
    CASE kind = "u32" -> U32Full(w)
      [] kind = "s32" -> S32(WideToInt(w))
      [] kind = "s64" -> S64Full(w)

LebKinds == {"u32", "s32", "s64"}
LebBits(kind) == IF kind = "s64" THEN 64 ELSE 32
LebInRange(kind, w) ==
    IF kind = "u32" THEN ~WideNeg(w) /\ WideBelowPow2(w, 32)
    ELSE WideBelowPow2(w, LebBits(kind) - 1) /\ WideAtLeastMinusPow2(w, LebBits(kind) - 1)

LebInit ==
    /\ \E kind \in LebKinds, sign \in {-1, 1}, k \in 0..63, d \in (-LebMaxDelta)..LebMaxDelta :
          /\ LebInRange(kind, WideOf(sign, k, d))
          /\ fnIn = [kind |-> kind, v |-> WideOf(sign, k, d)]
    /\ fnOut = << >> /\ fnPc = "init"
    /\ DslIdle /\ PoolIdle /\ ExIdle /\ ExtIdle

LebCall ==
    /\ fnPc = "init"
    /\ fnOut' = LebWrite(fnIn.kind, fnIn.v)
    /\ fnPc' = "written"
    /\ UNCHANGED <<fnIn, dslVars, poolVars, exVars, extVars>>

LebNext == LebCall

SpecLeb == LebInit /\ [][LebNext]_vars

(* The standard LEB128 decoder: every byte but the last has its top bit set; *)
(* the 7-bit groups are the value's digits, least significant first; a       *)
(* signed value is sign-extended from bit 6 of the last byte.  At most       *)
(* ceil(bits / 7) bytes belong to a value of the given width.                *)
LebWellFormed(bytes, bits) ==
    /\ Len(bytes) >= 1 /\ 7 * (Len(bytes) - 1) < bits
    /\ \A i \in 1..Len(bytes) : (bytes[i] >= 128) = (i < Len(bytes))

LebGroup(bytes, i, signed) ==
    IF i <= Len(bytes) THEN bytes[i] % 128
    ELSE IF signed /\ bytes[Len(bytes)] % 128 >= 64 THEN 127 ELSE 0

LebDecode(bytes, signed) ==
    LET g(i) == LebGroup(bytes, i, signed)
    IN  <<g(1) + 128 * g(2) + 16384 * g(3),
          g(4) + 128 * g(5) + 16384 * g(6),
          g(7) + 128 * g(8) + 16384 * g(9)
            + (IF signed THEN -(Pow2(21) * (g(10) % 2)) ELSE Pow2(21) * g(10))>>

\* C11: decoding with the standard LEB128 decoder the bytes written by u32(v)
\* for v in [0, 2^32), by s32(v) for v in [-2^31, 2^31) and by s64(v) for v in
\* [-2^63, 2^63) yields v.
C11_LebRoundTrip ==
    fnPc = "written" =>
        /\ LebWellFormed(fnOut, LebBits(fnIn.kind))
        /\ LebDecode(fnOut, fnIn.kind # "u32") = fnIn.v

\* the least 64-bit value, -2^63, has been written in ten bytes
C11_Witness ==
    /\ fnPc = "written"
    /\ fnIn.kind = "s64"
    /\ fnIn.v = WideOf(-1, 63, 0)
    /\ Len(fnOut) = 10


-----------------------------------------------------------------------------
(* WorkerPool.exec and the worker's CMD_RUN_ATOMIC loop:                     *)
(* src/src/runtime/sab.ts                                                    *)
(*                                                                           *)
(* The cursor is element 0 of an Int32Array over a SharedArrayBuffer:        *)
(* Atomics.add returns the old value and stores the sum wrapped to 32 bits.  *)
(* One step of a worker is one iteration of its loop; the iterations of      *)
(* different workers interleave at the Atomics.add.                          *)

\* largest number of workers (PoolOptions.concurrency)
MaxWorkers == 2

\* smallest chunk: Math.max(.., 1024)
MinChunk == 1024
\* chunks aimed at per worker: totalSize / (concurrency * 16)
ChunksPerWorker == 16

\* a + b stored in an Int32Array element, for an int32 a and 0 < b < 2^31
AtomicsAdd32(a, b) ==
    IF a > 2147483647 - b
    THEN ((a - 1073741824) - 1073741824) + ((b - 1073741824) - 1073741824)
    ELSE a + b

\* Math.ceil(a / b)
CeilDiv(a, b) == a \div b + (IF a % b = 0 THEN 0 ELSE 1)
Min(a, b) == IF a < b THEN a ELSE b
Max(a, b) == IF a > b THEN a ELSE b

\* optimalChunk
OptimalChunk(totalSize, concurrency) ==
    Max(CeilDiv(totalSize, concurrency * ChunksPerWorker), MinChunk)

\* task sizes tried: none, one element, one chunk and one more, a few chunks,
\* more chunks than workers, and sizes near the largest int32
PoolTotals ==
    {0, 1, MinChunk, MinChunk + 1, 3 * MinChunk - 7, 40000, 2082408416, 2147483647}

\* func(start, end, ...params) recorded: the number of calls made with this
\* range, counted up to 2
RecordCall(calls, range) ==
    IF range \in DOMAIN calls
    THEN [calls EXCEPT ![range] = 2]
    ELSE [r \in DOMAIN calls \cup {range} |-> IF r = range THEN 1 ELSE calls[r]]

PoolInit ==
    /\ poolTotal \in PoolTotals
    /\ \E n \in 1..MaxWorkers : workers = [w \in 1..n |-> "idle"]
    /\ poolChunk = 0 /\ cursor \in {0, 5 * MinChunk}
    /\ poolCalls = << >> /\ poolPc = "init"
    /\ DslIdle /\ FnIdle /\ ExIdle /\ ExtIdle

\* exec, after the workers are initialised: reset the cursor, size the
\* chunk, post CMD_RUN_ATOMIC to every worker
PoolExec ==
    /\ poolPc = "init"
    /\ cursor' = 0
    /\ poolChunk' = OptimalChunk(poolTotal, Len(workers))
    /\ workers' = [w \in DOMAIN workers |-> "posted"]
    /\ poolPc' = "running"
    /\ UNCHANGED <<poolTotal, poolCalls, dslVars, fnVars, exVars, extVars>>

\* the worker receives CMD_RUN_ATOMIC
WorkerReceive(w) ==
    /\ workers[w] = "posted"
    /\ workers' = [workers EXCEPT ![w] = "running"]
    /\ UNCHANGED <<poolTotal, poolChunk, cursor, poolCalls, poolPc, dslVars, fnVars, exVars, extVars>>

\* one iteration of the work stealing loop
WorkerStep(w) ==
    /\ workers[w] = "running"
    /\ cursor' = AtomicsAdd32(cursor, poolChunk)
    /\ LET start == cursor
           \* Math.min(start + chunk, total), the sum taken exactly
           end   == IF start < 0 THEN Min(start + poolChunk, poolTotal)
                    ELSE IF poolTotal - start <= poolChunk THEN poolTotal
                    ELSE start + poolChunk
       IN  IF start >= poolTotal
           THEN /\ workers' = [workers EXCEPT ![w] = "done"]
                /\ UNCHANGED poolCalls
           ELSE /\ poolCalls' = RecordCall(poolCalls, <<start, end>>)
                /\ UNCHANGED workers
    /\ UNCHANGED <<poolTotal, poolChunk, poolPc, dslVars, fnVars, exVars, extVars>>

\* RES_DONE of every worker has arrived: Promise.all(runPromises) resolves
PoolResolve ==
    /\ poolPc = "running"
    /\ \A w \in DOMAIN workers : workers[w] = "done"
    /\ poolPc' = "resolved"
    /\ UNCHANGED <<poolTotal, poolChunk, cursor, workers, poolCalls, dslVars, fnVars, exVars, extVars>>

PoolNext ==
    \/ PoolExec
    \/ \E w \in DOMAIN workers : WorkerReceive(w)
    \/ \E w \in DOMAIN workers : WorkerStep(w)
    \/ PoolResolve

SpecPool == PoolInit /\ [][PoolNext]_vars

\* the ranges chain from pos up to total, each starting where the previous ended
RECURSIVE ChainLength(_, _, _)
ChainLength(ranges, pos, total) ==
    IF pos >= total \/ ~(\E r \in ranges : r[1] = pos /\ r[2] > pos) THEN 0
    ELSE LET r == CHOOSE r \in ranges : r[1] = pos /\ r[2] > pos
         IN  1 + ChainLength(ranges, r[2], total)

RECURSIVE ChainEnd(_, _, _)
ChainEnd(ranges, pos, total) ==
    IF pos >= total \/ ~(\E r \in ranges : r[1] = pos /\ r[2] > pos) THEN pos
    ELSE ChainEnd(ranges, (CHOOSE r \in ranges : r[1] = pos /\ r[2] > pos)[2], total)

\* every index of [0, total) is in exactly one call: each range was called
\* once, lies in [0, total], and the ranges are exactly one chain 0 .. total
ExactlyOnce(calls, total) ==
    /\ \A r \in DOMAIN calls : calls[r] = 1 /\ 0 <= r[1] /\ r[1] < r[2] /\ r[2] <= total
    /\ \A r, q \in DOMAIN calls : r # q => r[2] <= q[1] \/ q[2] <= r[1]
    /\ ChainEnd(DOMAIN calls, 0, total) = Max(total, 0)
    /\ ChainLength(DOMAIN calls, 0, total) = Cardinality(DOMAIN calls)

\* C12: when the promise returned by exec resolves, every index in [0, total)
\* has been passed to the kernel function in exactly one call, for every
\* number of workers and every interleaving of their Atomics.add claims.
C12_EveryIndexOnce ==
    poolPc = "resolved" => ExactlyOnce(poolCalls, poolTotal)


\* for the task sizes whose cursor stays far below 2^31 the calls are one chain
C12_SmallTasksOnce ==
    (poolPc = "resolved" /\ poolTotal <= 40000) => ExactlyOnce(poolCalls, poolTotal)

-----------------------------------------------------------------------------
(* MainThreadExecutor.scheduleExecution: src/src/runtime/executor.ts         *)
(*                                                                           *)
(* Times are in tenths of a millisecond: 0.1 ms is 1, 1.0 ms is 10, the      *)
(* default baseSliceTime of 5 ms is 50.  performance.now() never goes back,  *)
(* so within one slice the measured sliceDuration never decreases; beyond    *)
(* that each measurement is any of the sample durations.  hasPendingInput()  *)
(* answers either way at each call.                                          *)

\* largest totalSize tried
ExMaxTotal == 1300

\* let step = 256
InitialStep == 256
\* if (step < 16) step = 16
MinStep == 16
\* currentSliceLimit + 5 (ms)
SliceExtension == 50

ExTotals == {0, 1, InitialStep, InitialStep + 1, 600, ExMaxTotal}

\* sample measurements: below 0.1 ms, below 1 ms, below and at 5 ms, 7 ms,
\* 50 ms and more
Durations == {0, 5, 10, 49, 50, 70, 500, 600}

\* {baseSliceTime, maxContinuousTime}: the defaults, no burst, no slice at all
ExOptionSets ==
    {[baseSliceTime |-> 50, maxContinuousTime |-> 500],
     [baseSliceTime |-> 50, maxContinuousTime |-> 50],
     [baseSliceTime |-> 0, maxContinuousTime |-> 0]}

\* scheduleExecution is entered: current = 0, step = 256,
\* currentSliceLimit = baseSliceTime
ExInit ==
    /\ exTotal \in ExTotals
    /\ exOptions \in ExOptionSets
    /\ current = 0 /\ exStep = InitialStep
    /\ currentSliceLimit = exOptions.baseSliceTime
    /\ sliceDuration = 0 /\ exCalls = << >> /\ exPc = "outer"
    /\ DslIdle /\ FnIdle /\ PoolIdle /\ ExtIdle

\* the test of the outer loop and the start of a slice
ExSlice ==
    /\ exPc = "outer"
    /\ sliceDuration' = 0
    /\ exPc' = IF current < exTotal THEN "inner" ELSE "done"
    /\ UNCHANGED <<exTotal, exOptions, current, exStep, currentSliceLimit, exCalls,
                   dslVars, fnVars, poolVars, extVars>>

\* variant without the clamp to totalSize
RangeEndUnclamped(cur, s, total) == cur + s

\* const end = current + step > totalSize ? totalSize : current + step
RangeEnd(cur, s, total) == IF cur + s > total THEN total ELSE cur + s

\* the step after the dynamic adjustment, for a slice duration d measured
\* after current has advanced to cur
AdjustedStep(s, d, total, cur) ==
    IF d < 1
    THEN LET grown == Min(s * 4, total - cur)
         IN  IF grown < MinStep THEN MinStep ELSE grown
    ELSE IF d < 10 THEN Min((s * 3) \div 2, total - cur)
    ELSE s

\* one iteration of the inner loop: the call of the entry function, the
\* measurement, the slice check and the step adjustment; leaving the inner
\* loop with work left resets the slice limit and yields
ExIterate ==
    /\ exPc = "inner"
    /\ \E d \in Durations, pending \in BOOLEAN :
          LET end     == RangeEnd(current, exStep, exTotal)
              over    == d >= currentSliceLimit
              extend  == over /\ ~pending /\ d < exOptions.maxContinuousTime
              break   == over /\ ~extend
              limit   == IF extend
                         THEN Min(currentSliceLimit + SliceExtension,
                                  exOptions.maxContinuousTime)
                         ELSE currentSliceLimit
          IN  /\ d >= sliceDuration
              /\ exCalls' = Append(exCalls, <<current, end>>)
              /\ current' = end
              /\ sliceDuration' = d
              /\ exStep' = IF break THEN exStep ELSE AdjustedStep(exStep, d, exTotal, end)
              /\ IF end < exTotal
                 THEN IF break
                      THEN /\ currentSliceLimit' = exOptions.baseSliceTime
                           /\ exPc' = "yielded"
                      ELSE /\ currentSliceLimit' = limit
                           /\ exPc' = "inner"
                 ELSE /\ currentSliceLimit' = limit
                      /\ exPc' = "done"
    /\ UNCHANGED <<exTotal, exOptions, dslVars, fnVars, poolVars, extVars>>

\* the macro task posted by yieldToMain runs: the await returns
ExResume ==
    /\ exPc = "yielded"
    /\ exPc' = "outer"
    /\ UNCHANGED <<exTotal, exOptions, current, exStep, currentSliceLimit, sliceDuration,
                   exCalls, dslVars, fnVars, poolVars, extVars>>

ExNext == ExSlice \/ ExIterate \/ ExResume

SpecExec == ExInit /\ [][ExNext]_vars

\* the thread keeps running its code and the event loop delivers the message
\* yieldToMain posted to itself
SpecExecFair == SpecExec /\ WF_vars(ExSlice) /\ WF_vars(ExIterate) /\ WF_vars(ExResume)

\* the ranges are non-empty, start at 0 and each starts where the previous ended
RangesChained(calls) ==
    \A k \in 1..Len(calls) :
        /\ calls[k][1] < calls[k][2]
        /\ calls[k][1] = (IF k = 1 THEN 0 ELSE calls[k - 1][2])

\* ... and the last one ends at total (no range at all for an empty task)
RangesComplete(calls, total) ==
    IF total <= 0 THEN calls = << >>
    ELSE calls # << >> /\ calls[Len(calls)][2] = total

\* C13: run with no abort eventually completes, having invoked the entry
\* function on ranges that are non-empty, start at 0, are each contiguous with
\* the previous one and end exactly at totalSize, whatever the measured slice
\* durations, pending-input answers and step-size adaptations are.
C13_RunCompletes ==
    /\ <>(exPc = "done")
    /\ [](RangesChained(exCalls) /\ (exPc = "done" => RangesComplete(exCalls, exTotal)))

\* a completed run of at least three calls whose step changed after the first
C13_Witness ==
    /\ exPc = "done" /\ exTotal = ExMaxTotal
    /\ Len(exCalls) >= 3
    /\ exCalls[2][2] - exCalls[2][1] # exCalls[1][2] - exCalls[1][1]
    /\ exCalls[Len(exCalls)][2] = exTotal

-----------------------------------------------------------------------------
(* Enum and match of the macro layer: src/src/macro/index.ts (match as a     *)
(* chain of if nodes) and src/unnamed/part_001 (match as a br_table          *)
(* dispatch), emitted by emitBinary and executed instruction by instruction. *)

\* largest number of variants of an Enum
MaxVariants == 3

\* const ALIGN_4 = 2
ALIGN_4 == 2

\* block and if with a result type: valueType = resultType || "void"
blockOf(label, children, resultType) ==
    [block(label, children) EXCEPT !.valueType = IF resultType = "" THEN "void" ELSE resultType]
ifNodeOf(test, thenBranch, elseBranch, resultType) ==
    [ifNode(test, thenBranch, elseBranch)
        EXCEPT !.valueType = IF resultType = "" THEN "void" ELSE resultType]

\* EnumDef.at(basePtr): tag() and is(variant), the variant given by its tag
EnumTag(basePtr) == memOp("i32.load", 0, ALIGN_4, <<basePtr>>)
EnumIs(basePtr, targetTag) == bin("i32.eq", EnumTag(basePtr), i32Const(targetTag))

\* match of src/src/macro/index.ts: entries are the handlers in the order of
\* the cases object, each <<tag of its variant, body>>
RECURSIVE buildChain(_, _, _, _, _)
buildChain(basePtr, entries, defaultCase, resultType, index) ==
    IF index > Len(entries)
    THEN IF defaultCase.present
         THEN blockOf("default_case", defaultCase.body, resultType)
         ELSE blockOf("no_match_noop", << >>, resultType)
    ELSE ifNodeOf(EnumIs(basePtr, entries[index][1]), entries[index][2],
                  <<buildChain(basePtr, entries, defaultCase, resultType, index + 1)>>,
                  resultType)

matchIfChain(basePtr, entries, defaultCase, resultType) ==
    buildChain(basePtr, entries, defaultCase, resultType, 1)

\* match of src/unnamed/part_001
CaseLabel(i) == "case_" \o DigitChars[i + 1]

RECURSIVE CaseLabels(_, _)
CaseLabels(i, maxTag) ==
    IF i >= maxTag THEN << >> ELSE <<CaseLabel(i)>> \o CaseLabels(i + 1, maxTag)

\* variant that takes the handler of the next tag
getCaseBodyNext(entries, tagIndex) ==
    IF \E k \in 1..Len(entries) : entries[k][1] = tagIndex + 1
    THEN entries[CHOOSE k \in 1..Len(entries) : entries[k][1] = tagIndex + 1][2]
    ELSE << >>

\* getCaseBody: the handler of the variant whose tag is tagIndex, [] if none
getCaseBody(entries, tagIndex) ==
    IF \E k \in 1..Len(entries) : entries[k][1] = tagIndex
    THEN entries[CHOOSE k \in 1..Len(entries) : entries[k][1] = tagIndex][2]
    ELSE << >>

\* the wrapping loop, from case i on
RECURSIVE WrapCases(_, _, _, _, _)
WrapCases(cur, entries, maxTag, resultType, i) ==
    IF i >= maxTag THEN cur
    ELSE IF i = maxTag - 1
    THEN blockOf("match_end", <<cur>> \o getCaseBody(entries, i), resultType)
    ELSE WrapCases(blockOf(CaseLabel(i + 1),
                           <<cur>> \o getCaseBody(entries, i) \o <<br("match_end")>>,
                           "void"),
                   entries, maxTag, resultType, i + 1)

matchBrTable(basePtr, entries, maxTag, defaultCase, resultType) ==
    LET inner == blockOf("default",
                         <<brTable(CaseLabels(0, maxTag), "default", EnumTag(basePtr))>>,
                         "void")
        first == blockOf(CaseLabel(0),
                         <<inner>> \o (IF defaultCase.present THEN defaultCase.body ELSE << >>)
                                   \o <<br("match_end")>>,
                         "void")
    IN  WrapCases(first, entries, maxTag, resultType, 0)

\* markers: the handler of the variant with tag i pushes the constant
\* Mark(i), the default body pushes Mark(-1); tags stay below every marker
Mark(i) == 100 + i

Marked(v, resultType) == IF resultType = "" THEN <<drop(i32Const(v))>> ELSE <<i32Const(v)>>

\* handlers of all N variants, in the order of the variants or in reverse
RECURSIVE Handlers(_, _, _, _)
Handlers(i, n, resultType, reversed) ==
    IF i >= n THEN << >>
    ELSE LET h == <<<<i, Marked(Mark(i), resultType)>>>>
         IN  IF reversed THEN Handlers(i + 1, n, resultType, reversed) \o h
             ELSE h \o Handlers(i + 1, n, resultType, reversed)

\* the match node inside a function, as in the tests
MatchNode(in) ==
    LET entries == Handlers(0, in.n, in.resultType, in.reversed)
        dflt    == [present |-> TRUE, body |-> Marked(Mark(-1), in.resultType)]
    IN  IF in.version = "if"
        THEN matchIfChain(localGet("ptr"), entries, dflt, in.resultType)
        ELSE matchBrTable(localGet("ptr"), entries, in.n, dflt, in.resultType)

MatchModule(in) ==
    module("test", <<importMemory("env", "memory", [min |-> 1, max |-> << >>, shared |-> FALSE]),
                     func("check", <<param("ptr", "i32")>>,
                          IF in.resultType = "" THEN << >> ELSE <<result(in.resultType)>>,
                          << >>, <<MatchNode(in)>>),
                     exportFunc("check")>>)

(* Execution of the emitted function body.  The machine is the position in   *)
(* the code, the operand stack, the label stack (continuation, operand stack *)
(* height and arity of each open block) and the trace of the constants       *)
(* pushed.  Memory holds the stored tag at the address read.                 *)

\* signed LEB128 value at pos
RECURSIVE ReadS(_, _)
ReadS(bytes, pos) ==
    IF bytes[pos] < 128
    THEN [value |-> IF bytes[pos] >= 64 THEN bytes[pos] - 128 ELSE bytes[pos], next |-> pos + 1]
    ELSE LET r == ReadS(bytes, pos + 1)
         IN  [value |-> (bytes[pos] - 128) + 128 * r.value, next |-> r.next]

\* position after the instruction at pos
InstrNext(code, pos) ==
    LET op == code[pos]
    IN  CASE op \in {2, 3, 4} -> pos + 2
          [] op \in {12, 13, 16, 32, 33, 34, 65} -> ReadU(code, pos + 1).next
          [] op = 14 -> ReadIndices(code, ReadU(code, pos + 1).next,
                                    ReadU(code, pos + 1).value + 1, 14).next
          [] op \in 40..62 -> ReadU(code, ReadU(code, pos + 1).next).next
          [] OTHER -> pos + 1

\* position of the end (11), or of the else (5) when wanted, that closes the
\* structure whose body starts at pos; 0 if there is none
RECURSIVE Closing(_, _, _, _)
Closing(code, pos, depth, wantElse) ==
    IF pos > Len(code) THEN 0
    ELSE LET op == code[pos]
         IN  IF op \in {2, 3, 4} THEN Closing(code, InstrNext(code, pos), depth + 1, wantElse)
             ELSE IF op = 11
             THEN (IF depth = 0 THEN (IF wantElse THEN 0 ELSE pos)
                   ELSE Closing(code, pos + 1, depth - 1, wantElse))
             ELSE IF op = 5 /\ depth = 0 /\ wantElse THEN pos
             ELSE Closing(code, InstrNext(code, pos), depth, wantElse)

Top(stack) == stack[Len(stack)]
Pop(stack, k) == SubSeq(stack, 1, Len(stack) - k)

\* branch to the label at relative depth d; depth = number of open blocks
\* returns from the function
Branch14(m, d) ==
    IF d >= Len(m.labels) THEN [m EXCEPT !.halted = TRUE]
    ELSE LET l == m.labels[Len(m.labels) - d]
         IN  [m EXCEPT !.pos = l.cont,
                       !.stack = SubSeq(m.stack, 1, l.height)
                                 \o SubSeq(m.stack, Len(m.stack) - l.arity + 1, Len(m.stack)),
                       !.labels = SubSeq(m.labels, 1, Len(m.labels) - d - 1)]

\* one instruction
ExecInstr(code, m, tag) ==
    LET op   == code[m.pos]
        next == InstrNext(code, m.pos)
        open(start) == [cont |-> Closing(code, start, 0, FALSE) + 1,
                        height |-> Len(m.stack) - (IF op = 4 THEN 1 ELSE 0),
                        arity |-> IF code[m.pos + 1] = 64 THEN 0 ELSE 1]
    IN  CASE op = 2 -> [m EXCEPT !.pos = next, !.labels = Append(@, open(next))]
          [] op = 4 ->
                LET els == Closing(code, next, 0, TRUE)
                IN  IF Top(m.stack) # 0
                    THEN [m EXCEPT !.pos = next, !.stack = Pop(@, 1),
                                   !.labels = Append(@, open(next))]
                    ELSE IF els # 0
                    THEN [m EXCEPT !.pos = els + 1, !.stack = Pop(@, 1),
                                   !.labels = Append(@, open(next))]
                    ELSE [m EXCEPT !.pos = open(next).cont, !.stack = Pop(@, 1)]
          [] op = 5 -> Branch14(m, 0)
          [] op = 11 ->
                IF m.labels = << >> THEN [m EXCEPT !.halted = TRUE]
                ELSE [m EXCEPT !.pos = next, !.labels = Pop(@, 1)]
          [] op = 12 -> Branch14(m, ReadU(code, m.pos + 1).value)
          [] op = 14 ->
                LET n    == ReadU(code, m.pos + 1)
                    imms == ReadIndices(code, n.next, n.value + 1, 14).imms
                    i    == Top(m.stack)
                    \* the index is unsigned: a negative i32 is beyond every table
                    k    == IF i >= 0 /\ i < n.value THEN i + 1 ELSE n.value + 1
                IN  Branch14([m EXCEPT !.stack = Pop(@, 1)], imms[k].imm)
          [] op = 26 -> [m EXCEPT !.pos = next, !.stack = Pop(@, 1)]
          [] op = 32 -> [m EXCEPT !.pos = next, !.stack = Append(@, 0)]
          [] op = 40 -> [m EXCEPT !.pos = next, !.stack = Append(Pop(@, 1), tag)]
          [] op = 65 ->
                LET v == ReadS(code, m.pos + 1).value
                IN  [m EXCEPT !.pos = next, !.stack = Append(@, v), !.trace = Append(@, v)]
          [] op = 70 ->
                LET a == m.stack[Len(m.stack) - 1]
                    b == Top(m.stack)
                IN  [m EXCEPT !.pos = next,
                              !.stack = Append(Pop(@, 2), IF a = b THEN 1 ELSE 0)]
          [] OTHER -> [m EXCEPT !.halted = TRUE, !.trapped = TRUE]

\* the stored tags tried: every variant, the first values beyond, and -1
MatchInit ==
    /\ \E version \in {"if", "table"}, n \in 1..MaxVariants, resultType \in {"", "i32"},
          reversed \in BOOLEAN :
          \E tag \in (-1)..(n + 1) :
              fnIn = [version |-> version, n |-> n, resultType |-> resultType,
                      reversed |-> reversed, tag |-> tag]
    /\ fnOut = << >> /\ fnPc = "init"
    /\ DslIdle /\ PoolIdle /\ ExIdle /\ ExtIdle

\* the module is compiled and the exported function is entered
MatchCompile ==
    /\ fnPc = "init"
    /\ LET out  == emitBinary(MatchModule(fnIn))
           body == IF out.ok THEN DecodedBodies(out.bytes)[1] ELSE << >>
       IN  /\ fnOut' = [ok |-> out.ok, code |-> body,
                        m |-> [pos |-> IF out.ok THEN CodeStart(body) ELSE 1,
                               stack |-> << >>, labels |-> << >>, trace |-> << >>,
                               halted |-> ~out.ok, trapped |-> FALSE]]
           /\ fnPc' = IF out.ok THEN "running" ELSE "failed"
    /\ UNCHANGED <<fnIn, dslVars, poolVars, exVars, extVars>>

MatchStep ==
    /\ fnPc = "running"
    /\ LET m == ExecInstr(fnOut.code, fnOut.m, fnIn.tag)
       IN  /\ fnOut' = [fnOut EXCEPT !.m = m]
           /\ fnPc' = IF m.halted THEN "returned" ELSE "running"
    /\ UNCHANGED <<fnIn, dslVars, poolVars, exVars, extVars>>

MatchNext == MatchCompile \/ MatchStep

SpecMatch == MatchInit /\ [][MatchNext]_vars

\* the marker constants pushed, in order
Marks(trace) == SelectSeq(trace, LAMBDA v : v >= Mark(-1))

\* C14: for an Enum with N >= 1 variants whose every variant has a handler,
\* the node built by match(), emitted inside a function, dispatches on the
\* stored tag: a tag i < N executes exactly the handler body of the variant
\* whose tag is i and neither another handler nor the default body, and any
\* tag >= N executes exactly the default body.
C14_MatchDispatch ==
    /\ fnPc # "failed"
    /\ fnPc = "returned" =>
          /\ ~fnOut.m.trapped
          /\ Marks(fnOut.m.trace) =
                 (IF fnIn.tag >= 0 /\ fnIn.tag < fnIn.n
                  THEN <<Mark(fnIn.tag)>> ELSE <<Mark(-1)>>)
          /\ fnIn.resultType = "i32" => fnOut.m.stack = Marks(fnOut.m.trace)

\* the br_table form has dispatched tag 1 of three variants to its handler
C14_Witness ==
    /\ fnPc = "returned" /\ fnIn.version = "table" /\ fnIn.n = 3 /\ fnIn.tag = 1
    /\ Marks(fnOut.m.trace) = <<Mark(1)>>

-----------------------------------------------------------------------------
(* Struct and Enum layout: src/src/macro/index.ts                            *)

\* longest schema tried
MaxFields == 3

\* size and align of PRIMITIVES
PRIMITIVES ==
    [bool |-> [size |-> 1, align |-> 1], u8  |-> [size |-> 1, align |-> 1],
     i8   |-> [size |-> 1, align |-> 1], u16 |-> [size |-> 2, align |-> 2],
     i16  |-> [size |-> 2, align |-> 2], i32 |-> [size |-> 4, align |-> 4],
     u32  |-> [size |-> 4, align |-> 4], f32 |-> [size |-> 4, align |-> 4],
     i64  |-> [size |-> 8, align |-> 8], u64 |-> [size |-> 8, align |-> 8],
     f64  |-> [size |-> 8, align |-> 8]]

\* a field type: a primitive name, or a StructDef or EnumDef with its layout
Prim(name) == [kind |-> "prim", name |-> name, size |-> 0, align |-> 0]

\* getTypeMeta
getTypeMeta(type) ==
    IF type.kind = "prim" THEN PRIMITIVES[type.name]
    ELSE [size |-> type.size, align |-> type.align]

\* variant that pads even an aligned offset
PaddingAlways(align, offset) == align - (offset % align)

\* (align - (offset % align)) % align
Padding(align, offset) == (align - (offset % align)) % align

\* the loop of StructDef.constructor from field k on
RECURSIVE LayoutFields(_, _, _, _)
LayoutFields(schema, k, currentOffset, maxAlign) ==
    IF k > Len(schema)
    THEN [offsets |-> << >>, currentOffset |-> currentOffset, maxAlign |-> maxAlign]
    ELSE LET meta   == getTypeMeta(schema[k])
             offset == currentOffset + Padding(meta.align, currentOffset)
             rest   == LayoutFields(schema, k + 1, offset + meta.size,
                                    Max(maxAlign, meta.align))
         IN  [rest EXCEPT !.offsets = <<offset>> \o @]

\* new StructDef(schema), the schema a sequence of field types in key order
StructDef(schema) ==
    LET l == LayoutFields(schema, 1, 0, 1)
    IN  [kind |-> "struct", name |-> "", schema |-> schema, offsets |-> l.offsets,
         size |-> l.currentOffset + Padding(l.maxAlign, l.currentOffset),
         align |-> l.maxAlign]

\* new EnumDef(variants), every variant a StructDef or null (<< >>):
\* a 4-byte tag, the payload at the next multiple of its alignment
RECURSIVE MaxPayload(_, _, _)
MaxPayload(variants, field, least) ==
    IF variants = << >> THEN least
    ELSE MaxPayload(Tail(variants), field,
                    IF Head(variants) = << >> THEN least
                    ELSE Max(least, Head(variants)[1][field]))

EnumDef(variants) ==
    LET maxPayloadSize  == MaxPayload(variants, "size", 0)
        maxPayloadAlign == MaxPayload(variants, "align", 1)
        payloadOffset   == 4 + Padding(maxPayloadAlign, 4)
        align           == Max(4, maxPayloadAlign)
        size            == payloadOffset + maxPayloadSize
    IN  [kind |-> "enum", name |-> "", payloadOffset |-> payloadOffset,
         size |-> size + Padding(align, size), align |-> align]

\* field types tried: every primitive, nested structs (the one of the layout
\* test, an empty one, one of alignment 8) and an enum with a payload
AsField(def) == [kind |-> def.kind, name |-> "", size |-> def.size, align |-> def.align]

FieldTypes ==
    {Prim(name) : name \in DOMAIN PRIMITIVES}
    \cup {AsField(StructDef(<<Prim("u8"), Prim("i32"), Prim("u16")>>)),
          AsField(StructDef(<< >>)),
          AsField(StructDef(<<Prim("f64"), Prim("u8")>>)),
          AsField(EnumDef(<< <<StructDef(<<Prim("f32"), Prim("f32")>>)>>, << >> >>))}

StructInit ==
    /\ fnIn \in SeqsUpTo(FieldTypes, MaxFields)
    /\ fnOut = << >> /\ fnPc = "init"
    /\ DslIdle /\ PoolIdle /\ ExIdle /\ ExtIdle

StructCall ==
    /\ fnPc = "init"
    /\ fnOut' = StructDef(fnIn)
    /\ fnPc' = "built"
    /\ UNCHANGED <<fnIn, dslVars, poolVars, exVars, extVars>>

StructNext == StructCall

SpecStruct == StructInit /\ [][StructNext]_vars

\* the least multiple of align that is not below lo
LeastMultiple(align, lo) == CHOOSE v \in lo..(lo + align - 1) : v % align = 0

FieldEnd(def, k) ==
    IF k = 0 THEN 0 ELSE def.offsets[k] + getTypeMeta(def.schema[k]).size

LargestAlign(schema) ==
    CHOOSE a \in {1} \cup {getTypeMeta(schema[k]).align : k \in 1..Len(schema)} :
        \A k \in 1..Len(schema) : getTypeMeta(schema[k]).align <= a

\* C15: for every Struct schema, each field's offset is the smallest multiple
\* of that field's alignment that is not below the end of the preceding field
\* (0 for the first field), and the struct's size is the end of the last field
\* rounded up to a multiple of the largest field alignment; hence fields never
\* overlap and every field is aligned.
C15_StructLayout ==
    fnPc = "built" =>
        /\ Len(fnOut.offsets) = Len(fnIn)
        /\ \A k \in 1..Len(fnIn) :
              /\ fnOut.offsets[k] =
                     LeastMultiple(getTypeMeta(fnIn[k]).align, FieldEnd(fnOut, k - 1))
              /\ fnOut.offsets[k] % getTypeMeta(fnIn[k]).align = 0
              /\ \A j \in 1..(k - 1) : FieldEnd(fnOut, j) <= fnOut.offsets[k]
        /\ fnOut.size = LeastMultiple(LargestAlign(fnIn), FieldEnd(fnOut, Len(fnIn)))

\* the struct of the layout test: u8, i32, u16 at 0, 4, 8 in 12 bytes
C15_Witness ==
    /\ fnPc = "built"
    /\ fnIn = <<Prim("u8"), Prim("i32"), Prim("u16")>>
    /\ fnOut.offsets = <<0, 4, 8>> /\ fnOut.size = 12 /\ fnOut.align = 4

-----------------------------------------------------------------------------
(* Feature probes isSimdSupported and isThreadsSupported:                    *)
(* src/src/runtime/sab.ts                                                    *)
(*                                                                           *)
(* The environment is what the probes observe: whether typeof WebAssembly is *)
(* "object", whether WebAssembly.instantiate is a function, what             *)
(* WebAssembly.validate does with the v128 module (absent, throws, answers), *)
(* whether SharedArrayBuffer is defined and what new WebAssembly.Memory with *)
(* shared: true does.  A JavaScript value is "undefined", "true" or "false". *)

Environments ==
    [wasmObject : BOOLEAN, instantiate : BOOLEAN,
     validate : {"absent", "throws", "true", "false"},
     sab : BOOLEAN, sharedMemory : {"throws", "shared", "unshared"}]

\* without the WebAssembly object none of its members exists
Consistent(env) ==
    env.wasmObject \/ (~env.instantiate /\ env.validate = "absent" /\ env.sharedMemory = "throws")

\* isSimdSupported given the cached _simdSupported: the new cache and the
\* value returned
isSimdSupported(env, cached) ==
    IF cached # "undefined" THEN [cache |-> cached, returned |-> cached]
    ELSE IF env.wasmObject /\ env.instantiate
    THEN (IF env.validate \in {"absent", "throws"}
          THEN [cache |-> "false", returned |-> "false"]
          ELSE [cache |-> env.validate, returned |-> env.validate])
    ELSE [cache |-> cached, returned |-> cached]

\* isThreadsSupported given the cached _threadsSupported
isThreadsSupported(env, cached) ==
    IF cached # "undefined" THEN [cache |-> cached, returned |-> cached]
    ELSE IF ~env.sab THEN [cache |-> "false", returned |-> "false"]
    ELSE IF env.sharedMemory = "shared" THEN [cache |-> "true", returned |-> "true"]
    ELSE [cache |-> "false", returned |-> "false"]

ProbeInit ==
    /\ fnIn \in {env \in Environments : Consistent(env)}
    /\ fnOut = [simd |-> "undefined", threads |-> "undefined",
                probe |-> "", returned |-> "undefined"]
    /\ fnPc = "loaded"
    /\ DslIdle /\ PoolIdle /\ ExIdle /\ ExtIdle

ProbeSimd ==
    /\ fnPc \in {"loaded", "called"}
    /\ LET r == isSimdSupported(fnIn, fnOut.simd)
       IN  fnOut' = [fnOut EXCEPT !.simd = r.cache, !.probe = "simd", !.returned = r.returned]
    /\ fnPc' = "called"
    /\ UNCHANGED <<fnIn, dslVars, poolVars, exVars, extVars>>

ProbeThreads ==
    /\ fnPc \in {"loaded", "called"}
    /\ LET r == isThreadsSupported(fnIn, fnOut.threads)
       IN  fnOut' = [fnOut EXCEPT !.threads = r.cache, !.probe = "threads",
                                  !.returned = r.returned]
    /\ fnPc' = "called"
    /\ UNCHANGED <<fnIn, dslVars, poolVars, exVars, extVars>>

ProbeNext == ProbeSimd \/ ProbeThreads

SpecProbe == ProbeInit /\ [][ProbeNext]_vars

\* the environment has the feature the probe asks about
HasFeature(env, probe) ==
    IF probe = "simd" THEN env.wasmObject /\ env.instantiate /\ env.validate = "true"
    ELSE env.wasmObject /\ env.sab /\ env.sharedMemory = "shared"

\* C16: isSimdSupported() and isThreadsSupported() never throw and return
\* exactly true or false in every environment; in an environment without a
\* usable WebAssembly global or without the feature they return false.
C16_ProbesReturnBoolean ==
    fnPc = "called" =>
        /\ fnOut.returned \in {"true", "false"}
        /\ ~HasFeature(fnIn, fnOut.probe) => fnOut.returned = "false"

\* isThreadsSupported alone does what is claimed
C16_ThreadsProbeBoolean ==
    (fnPc = "called" /\ fnOut.probe = "threads") =>
        /\ fnOut.returned \in {"true", "false"}
        /\ ~HasFeature(fnIn, "threads") => fnOut.returned = "false"

-----------------------------------------------------------------------------
(* The loop unroller applied to loops that have and that miss the shape of a *)
(* counted loop: src/src/dsl/optimizer.ts, loopUnrollPass                    *)

\* first children tried: the exit test, or something else
UnFirsts == {brIf("out", bin("i32.ge_s", localGet("i"), localGet("n"))), nop}

\* penultimate children tried: the increment of i, and near misses
UnIncrements ==
    {localSet("i", bin("i32.add", localGet("i"), i32Const(1))),
     localSet("i", bin("i32.add", localGet("j"), i32Const(1))),
     localSet("i", bin("i32.add", i32Const(2), i32Const(1))),
     localSet("i", bin("i32.add", localGet("i"), localGet("n"))),
     localSet("i", bin("i32.sub", localGet("i"), i32Const(1))),
     localTee("i", bin("i32.add", localGet("i"), i32Const(1)))}

\* last children tried: the back edge, a branch elsewhere, no branch
UnLasts == {br("top"), br("out"), nop}

UnrollInit ==
    /\ \E first \in SeqsUpTo(UnFirsts, 1),
          body \in SeqsUpTo({i32Store(localGet("i"), i32Const(1))}, MaxBody),
          inc \in UnIncrements, last \in UnLasts, factor \in 1..MaxFactor :
          fnIn = [node |-> loop("top", first \o body \o <<inc, last>>),
                  factor |-> factor]
    /\ fnOut = << >> /\ fnPc = "init"
    /\ DslIdle /\ PoolIdle /\ ExIdle /\ ExtIdle

UnrollCall ==
    /\ fnPc = "init"
    /\ fnOut' = loopUnrollPass(fnIn.node, fnIn.factor)
    /\ fnPc' = "done"
    /\ UNCHANGED <<fnIn, dslVars, poolVars, exVars, extVars>>

UnrollNext == UnrollCall

SpecUnroll == UnrollInit /\ [][UnrollNext]_vars

\* the shape the unroller is said to require
IsIncrementOf(inc) ==
    /\ inc.type = "local.set"
    /\ Len(inc.children) = 1
    /\ inc.children[1].type = "binop" /\ inc.children[1].op = "i32.add"
    /\ Len(inc.children[1].children) = 2
    /\ inc.children[1].children[1].type = "local.get"
    /\ inc.children[1].children[1].name = inc.name
    /\ inc.children[1].children[2].type = "const"

CountedShape(node) ==
    LET n == Len(node.children)
    IN  /\ node.type = "loop"
        /\ n >= 4
        /\ node.children[1].type = "br_if"
        /\ IsIncrementOf(node.children[n - 1])
        /\ node.children[n].type = "br" /\ node.children[n].name = node.name

\* C17: the loop unroller returns a loop node unchanged unless all of these
\* hold: the loop has at least 4 children; its first child is br_if; its
\* penultimate child is local.set i whose value is i32.add(local.get i,
\* const step) reading the same local i; and its last child is a br whose
\* label is the loop's own label.
C17_UnrollOnlyCountedShape ==
    (fnPc = "done" /\ ~CountedShape(fnIn.node)) => fnOut = fnIn.node

\* what the code requires: at least 3 children, br_if first, and a penultimate
\* local.set of an i32.add whose second operand is a const
CodeShape(node) ==
    LET n == Len(node.children)
    IN  /\ n >= 3
        /\ node.children[1].type = "br_if"
        /\ node.children[n - 1].type = "local.set"
        /\ node.children[n - 1].children[1].type = "binop"
        /\ node.children[n - 1].children[1].op = "i32.add"
        /\ node.children[n - 1].children[1].children[2].type = "const"

C17_UnrollOnlyCodeShape ==
    (fnPc = "done" /\ ~CodeShape(fnIn.node)) => fnOut = fnIn.node

-----------------------------------------------------------------------------
(* The unrolled loop when the iteration count is not a multiple of the factor *)

IsPrefix(s, t) == Len(s) <= Len(t) /\ SubSeq(t, 1, Len(s)) = s

\* the exit test of the loop (the condition of its leading br_if) at i
ExitHolds(lp, i) == Eval(lp.children[1].children[1], i) # 0

\* C18: when the number of iterations the original counted loop executes is
\* not a multiple of the unroll factor, the unrolled loop truncates: the body
\* executions it performs are a prefix of the original loop's, and it never
\* executes the body with a value of i for which the original loop's exit
\* condition holds.
C18_UnrollTruncates ==
    (lpPhase \in {"unrolled", "done", "unrolledRunsOn"} /\ lpOrigRun.iters % lpFactor # 0) =>
        /\ IsPrefix(lpRun.trace, lpOrigRun.trace)
        /\ \A k \in 1..Len(lpRun.trace) : ~ExitHolds(lpOrig, lpRun.trace[k][2])

-----------------------------------------------------------------------------
(* autoVectorize followed by emitBinary: the memarg of the vector accesses   *)

\* align values of the scalar accesses tried (0: the node has no align)
VeAligns == {0, 1, 2, 4, 8}

\* bodies tried: a store of a load, a dropped load, a store of a constant,
\* of the access type given
VeBodies(type, loadAlign, storeAlign) ==
    {<<memOp(type \o ".store", 0, storeAlign,
             <<localGet("p"), memOp(type \o ".load", 4, loadAlign, <<localGet("p")>>)>>)>>,
     <<drop(memOp(type \o ".load", 0, loadAlign, <<localGet("p")>>))>>,
     <<memOp(type \o ".store", 8, storeAlign, <<localGet("p"), constVal(type, 1)>>)>>}

VeInit ==
    /\ \E type \in {"f32", "i32"}, loadAlign \in VeAligns, storeAlign \in VeAligns :
          \E body \in VeBodies(type, loadAlign, storeAlign) :
              vecIn = func("map", <<param("p", "i32")>>, << >>, << >>, body)
    /\ vecType \in {"f32", "i32"}
    /\ vecSimd = TRUE
    /\ vecOut = [func |-> Blank, width |-> 0, success |-> FALSE]
    /\ vecPc = "init"
    /\ OptIdle /\ LpIdle /\ EmIdle /\ FnIdle /\ PoolIdle /\ ExIdle /\ ExtIdle

\* emitBinary of a module made of the function autoVectorize returned
VeEmit ==
    /\ vecPc = "done" /\ emPc = "idle"
    /\ emIn' = module("m", <<vecOut.func>>)
    /\ emOut' = emitBinary(module("m", <<vecOut.func>>))
    /\ emPc' = "done"
    /\ UNCHANGED <<vecVars, optVars, lpVars, fnVars, poolVars, exVars, extVars>>

VeNext == VecRun \/ VeEmit

SpecVecEmit == VeInit /\ [][VeNext]_vars

\* the memargs <<align exponent, offset>> of the v128.load (0xfd 0) and
\* v128.store (0xfd 11) instructions of a code made of local.get, drop,
\* scalar loads and stores, i32.const, f32.const, splats and end
RECURSIVE VectorMemargs(_, _)
VectorMemargs(code, pos) ==
    IF pos > Len(code) THEN << >>
    ELSE LET op == code[pos]
         IN  CASE op = 253 ->
                    LET sub == ReadU(code, pos + 1)
                    IN  IF sub.value \in {0, 11}
                        THEN LET a == ReadU(code, sub.next)
                                 o == ReadU(code, a.next)
                             IN  <<<<a.value, o.value>>>> \o VectorMemargs(code, o.next)
                        ELSE VectorMemargs(code, sub.next)
               [] op = 67 -> VectorMemargs(code, pos + 5)
               [] OTHER -> VectorMemargs(code, InstrNext(code, pos))

\* the align of the scalar accesses of the target type and their offsets, in
\* the order of emission (operands before the operation)
RECURSIVE ScalarAccesses(_, _)
ScalarAccesses(nodes, type) ==
    IF nodes = << >> THEN << >>
    ELSE LET n == Head(nodes)
         IN  ScalarAccesses(n.children, type)
             \o (IF n.type \in {type \o ".load", type \o ".store"}
                 THEN <<<<n.align, n.offset>>>> ELSE << >>)
             \o ScalarAccesses(Tail(nodes), type)

RECURSIVE ExpectedMemargs(_)
ExpectedMemargs(accesses) ==
    IF accesses = << >> THEN << >>
    ELSE <<<<IF Head(accesses)[1] = 1 THEN 0 ELSE 4, Head(accesses)[2]>>>>
         \o ExpectedMemargs(Tail(accesses))

\* C19: for a scalar load or store of the target type whose align is not 1,
\* the v128.load/v128.store that autoVectorize produces is written by
\* emitBinary with alignment exponent 4 in its memarg (16-byte aligned); when
\* the scalar align is 1 the exponent written is 0.
C19_VectorAlignExponent ==
    (emPc = "done" /\ vecOut.success) =>
        /\ emOut.ok
        /\ VectorMemargs(DecodedBodies(emOut.bytes)[1], CodeStart(DecodedBodies(emOut.bytes)[1]))
               = ExpectedMemargs(ScalarAccesses(vecIn.children, TargetTypeOf(vecType)))

\* what is written: exponent 2, log2 of the align field 4 of the vector node
RECURSIVE WrittenMemargs(_)
WrittenMemargs(accesses) ==
    IF accesses = << >> THEN << >>
    ELSE <<<<IF Head(accesses)[1] = 1 THEN 0 ELSE 2, Head(accesses)[2]>>>>
         \o WrittenMemargs(Tail(accesses))

C19_VectorAlignWritten ==
    (emPc = "done" /\ vecOut.success) =>
        /\ emOut.ok
        /\ VectorMemargs(DecodedBodies(emOut.bytes)[1], CodeStart(DecodedBodies(emOut.bytes)[1]))
               = WrittenMemargs(ScalarAccesses(vecIn.children, TargetTypeOf(vecType)))

-----------------------------------------------------------------------------
(* autoVectorize on address expressions with nested operands                 *)

\* operands tried: leaves, the stride pattern, a product, an i32 made from a
\* loaded f32
VnOperands ==
    {localGet("i"), i32Const(1), i32Const(2),
     bin("i32.add", localGet("i"), i32Const(1)),
     bin("i32.mul", localGet("i"), i32Const(4)),
     un("i32.trunc_f32_s", f32Load(localGet("p"), 2))}

\* the mapped i32 operations
VnOps == {op \in {"i32.add", "i32.sub", "i32.mul", "i32.and", "i32.or", "i32.xor"} : SimdMapped(op)}

\* a function that stores an f32 at the address op(a, b)
VnFunc(op, a, b) ==
    func("map", <<param("p", "i32")>>, << >>, <<local("i", "i32")>>,
         <<f32Store(bin(op, a, b), f32Const(1), 2)>>)

VnInit ==
    /\ \E op \in VnOps, a \in VnOperands, b \in VnOperands : vecIn = VnFunc(op, a, b)
    /\ vecType \in {"", "f32", "i32"}
    /\ vecSimd \in BOOLEAN
    /\ vecOut = [func |-> Blank, width |-> 0, success |-> FALSE]
    /\ vecPc = "init"
    /\ OptIdle /\ LpIdle /\ EmIdle /\ FnIdle /\ PoolIdle /\ ExIdle /\ ExtIdle

VnNext == VecRun

SpecVecNest == VnInit /\ [][VnNext]_vars

\* i32.add(x, const 1)
IsStride(node) ==
    /\ OpOf(node) = "i32.add" /\ Len(node.children) = 2
    /\ node.children[2].type = "const" /\ node.children[2].value = <<1>>

\* the address expression given and the one in the vectorized store
VnAddress(f) == f.children[1].children[1]

\* C20: in f32 mode, for a mapped i32.* node that is not the stride pattern
\* i32.add(x, const 1), autoVectorize keeps the node's own operation scalar and
\* unchanged but still applies the rewrite rules to its operand subtrees, so a
\* nested i32.add(i, const 1) has its constant lifted to 4 and a nested
\* f32.load becomes v128.load.
C20_OperandsRewritten ==
    (vecPc = "done" /\ vecOut.success /\ TargetTypeOf(vecType) = "f32"
       /\ ~IsStride(VnAddress(vecIn))) =>
        /\ OpOf(VnAddress(vecOut.func)) = OpOf(VnAddress(vecIn))
        /\ VnAddress(vecOut.func).type = VnAddress(vecIn).type
        /\ VnAddress(vecOut.func).children = transformNodes(VnAddress(vecIn).children, "f32")

\* what happens: the node is returned as it is, operands included
C20_NodeReturnedWhole ==
    (vecPc = "done" /\ vecOut.success /\ TargetTypeOf(vecType) = "f32"
       /\ ~IsStride(VnAddress(vecIn))) =>
        VnAddress(vecOut.func) = VnAddress(vecIn)

-----------------------------------------------------------------------------
(* atomic.fence among other instructions: emitNode, general operations *)

\* instructions of one byte each that surround the fence
FenceFillers == {nop, unreachable, returnNode(<< >>)}

\* the fence between two runs of fillers, directly in the function body or
\* inside a block
FenceModule(pre, post, wrapped) ==
    LET body == pre \o <<atomicFence>> \o post
    IN  module("m", <<func("f", << >>, << >>, << >>,
                           IF wrapped THEN <<block("a", body)>> ELSE body)>>)

FenceInit ==
    /\ \E pre \in SeqsUpTo(FenceFillers, 2), post \in SeqsUpTo(FenceFillers, 2),
          wrapped \in BOOLEAN :
           emIn = FenceModule(pre, post, wrapped)
    /\ emOut = NoOutput
    /\ emPc = "init"
    /\ OptIdle /\ LpIdle /\ VecIdle /\ FnIdle /\ PoolIdle /\ ExIdle /\ ExtIdle

FenceNext == Emit

SpecFence == FenceInit /\ [][FenceNext]_vars

\* the byte each filler is written as
RECURSIVE FillerBytes(_)
FillerBytes(nodes) ==
    IF nodes = << >> THEN << >>
    ELSE <<CASE Head(nodes).type = "nop" -> 1
             [] Head(nodes).type = "unreachable" -> 0
             [] Head(nodes).type = "return" -> 15>> \o FillerBytes(Tail(nodes))

\* the instructions of the function of a FenceModule, block wrapper removed
FenceStmts(m) ==
    LET body == m.children[1].children
    IN  IF body[1].type = "block" THEN body[1].children ELSE body

FencePos(stmts) == CHOOSE i \in 1..Len(stmts) : stmts[i].type = "atomic.fence"

\* the bytes of the instructions of the emitted function, the block wrapper
\* (02 40 ... 0B) and the final END removed
FenceCode(m, bytes) ==
    LET body == DecodedBodies(bytes)[1]
        code == SubSeq(body, CodeStart(body), Len(body) - 1)
    IN  IF m.children[1].children[1].type = "block"
        THEN SubSeq(code, 3, Len(code) - 1)
        ELSE code

\* the instruction stream with the fence written as the bytes fence
FenceExpected(m, fence) ==
    LET stmts == FenceStmts(m)
        i     == FencePos(stmts)
    IN  FillerBytes(SubSeq(stmts, 1, i - 1)) \o fence
            \o FillerBytes(SubSeq(stmts, i + 1, Len(stmts)))

\* C21: an atomic.fence node is emitted as the prefix byte 0xFE, the sub-code
\* 0x03 and exactly one immediate byte 0x00, with no memarg.
C21_FenceThreeBytes ==
    emPc = "done" =>
        /\ emOut.ok
        /\ FenceCode(emIn, emOut.bytes) = FenceExpected(emIn, <<254, 3, 0>>)

\* what the emitter writes: the memarg (alignment exponent 0, offset 0) of the
\* operations whose key includes "atomic" follows the sub-code
C21_FenceWithMemarg ==
    emPc = "done" =>
        /\ emOut.ok
        /\ FenceCode(emIn, emOut.bytes) = FenceExpected(emIn, <<254, 3, 0, 0>>)

-----------------------------------------------------------------------------
(* Dead-code elimination inside optimize *)

\* most statements of a generated body
DceMaxLen == 3

\* statements of a body: the four terminators, br_if, and statements that
\* end nothing; the last one becomes a return only by the peephole x + 0 -> x
DceStmts ==
    {nop, brIf("out", localGet("i")), br("out"), returnNode(<< >>), unreachable,
     brTable(<<"out">>, "out", localGet("i")),
     bin("i32.add", returnNode(<< >>), i32Const(0))}

DceWrappers == {"block", "loop", "then", "else", "nested", "counted"}

\* the structure that holds the generated statements
DceWrap(kind, inner) ==
    CASE kind = "block"   -> block("out", inner)
      [] kind = "loop"    -> loop("out", inner)
      [] kind = "then"    -> ifNode(localGet("i"), <<block("out", inner), nop>>, << >>)
      [] kind = "else"    -> ifNode(localGet("i"), <<returnNode(<< >>), nop>>,
                                    <<loop("out", inner)>>)
      [] kind = "nested"  -> block("out", <<loop("in", <<block("b", inner), nop>>), nop>>)
      [] kind = "counted" ->
             block("out",
                   <<loop("top",
                          <<brIf("out", bin("i32.ge_s", localGet("i"), localGet("n")))>>
                          \o inner
                          \o <<localSet("i", bin("i32.add", localGet("i"), i32Const(1))),
                               br("top")>>)>>)

DceTails == {<< >>, <<nop>>, <<returnNode(<< >>), nop>>}

DceFunc(kind, inner, tail) ==
    func("f", <<param("n", "i32")>>, << >>, <<local("i", "i32")>>,
         <<DceWrap(kind, inner)>> \o tail)

DceInit ==
    /\ \E kind \in DceWrappers, inner \in SeqsUpTo(DceStmts, DceMaxLen), tail \in DceTails :
           optIn = DceFunc(kind, inner, tail)
    /\ optLevel \in 1..3
    /\ optFactor = (IF optLevel = 3 THEN 2 ELSE 0)
    /\ optOut = Blank
    /\ optOut2 = Blank
    /\ optPc = "init"
    /\ LpIdle /\ EmIdle /\ VecIdle /\ FnIdle /\ PoolIdle /\ ExIdle /\ ExtIdle

DceNext == OptRun \/ OptRerun

SpecDce == DceInit /\ [][DceNext]_vars

Terminators == {"return", "br", "unreachable", "br_table"}

\* no block, loop or func of the tree has a child after a terminator
RECURSIVE NoDeadChild(_)
NoDeadChild(node) ==
    /\ node.type \in {"block", "loop", "func"} =>
           \A i \in 1..(Len(node.children) - 1) : node.children[i].type \notin Terminators
    /\ \A i \in 1..Len(node.children) : NoDeadChild(node.children[i])
    /\ \A i \in 1..Len(node.consequent) : NoDeadChild(node.consequent[i])
    /\ \A i \in 1..Len(node.alternate) : NoDeadChild(node.alternate[i])

\* the children up to and including the first terminator
RECURSIVE CutAfterTerminator(_)
CutAfterTerminator(cs) ==
    IF cs = << >> THEN << >>
    ELSE IF Head(cs).type \in Terminators THEN <<Head(cs)>>
    ELSE <<Head(cs)>> \o CutAfterTerminator(Tail(cs))

\* the tree with every block, loop and func body cut after its first
\* terminator and nothing else removed
RECURSIVE Truncated(_)
RECURSIVE TruncatedAll(_)
TruncatedAll(nodes) ==
    IF nodes = << >> THEN << >> ELSE <<Truncated(Head(nodes))>> \o TruncatedAll(Tail(nodes))

Truncated(node) ==
    LET n == [node EXCEPT !.children = TruncatedAll(@), !.consequent = TruncatedAll(@),
                          !.alternate = TruncatedAll(@)]
    IN  IF n.type \in {"block", "loop", "func"}
        THEN [n EXCEPT !.children = CutAfterTerminator(@)]
        ELSE n

\* the tree has no operation the other passes rewrite
RECURSIVE Inert(_)
Inert(node) ==
    /\ node.type # "binop"
    /\ \A i \in 1..Len(node.children) : Inert(node.children[i])
    /\ \A i \in 1..Len(node.consequent) : Inert(node.consequent[i])
    /\ \A i \in 1..Len(node.alternate) : Inert(node.alternate[i])

\* C22: in the result of optimize at level 2 or 3, no block, loop or func
\* body has a child following a child of type return, br, unreachable or
\* br_table, and a br_if child never causes its following siblings to be
\* removed (on a tree the other passes leave alone, the result is the input
\* with each such body cut after its first terminator, nothing else removed).
C22_NoChildAfterTerminator ==
    (optPc # "init" /\ optLevel >= 2) =>
        /\ NoDeadChild(optOut)
        /\ Inert(optIn) => optOut = Truncated(optIn)

\* a loop whose br_if is followed by a br and a nop: the nop goes, the br stays
C22_Witness ==
    /\ optPc = "once" /\ optLevel = 3
    /\ optIn = DceFunc("loop", <<brIf("out", localGet("i")), br("out"), nop>>, <<nop>>)
    /\ optOut = DceFunc("loop", <<brIf("out", localGet("i")), br("out")>>, <<nop>>)

-----------------------------------------------------------------------------
(* Type and Function sections of modules with several signatures *)

\* most functions of a module whose signatures are compared
TyMaxFuncs == 3

TyParamLists ==
    {<< >>, <<"i32">>, <<"f64">>, <<"i32", "f64">>, <<"f64", "i32">>, <<"i32", "i32">>}

TyResultLists == {<< >>, <<"i32">>}

TySignatures == {<<p, r>> : p \in TyParamLists, r \in TyResultLists}

RECURSIVE TyParams(_)
TyParams(types) ==
    IF types = << >> THEN << >> ELSE <<param("", Head(types))>> \o TyParams(Tail(types))

RECURSIVE TyResults(_)
TyResults(types) ==
    IF types = << >> THEN << >> ELSE <<result(Head(types))>> \o TyResults(Tail(types))

\* one function per signature, in order, each with an empty body
RECURSIVE TyFuncs(_)
TyFuncs(sigs) ==
    IF sigs = << >> THEN << >>
    ELSE <<func("$_f", TyParams(Head(sigs)[1]), TyResults(Head(sigs)[2]), << >>, << >>)>>
         \o TyFuncs(Tail(sigs))

TyInit ==
    /\ \E sigs \in SeqsUpTo(TySignatures, TyMaxFuncs) \ {<< >>}, withImport \in BOOLEAN :
           emIn = module("m", (IF withImport THEN <<MemImport>> ELSE << >>) \o TyFuncs(sigs))
    /\ emOut = NoOutput
    /\ emPc = "init"
    /\ OptIdle /\ LpIdle /\ VecIdle /\ FnIdle /\ PoolIdle /\ ExIdle /\ ExtIdle

TyNext == Emit

SpecTypes == TyInit /\ [][TyNext]_vars

\* n bytes from position pos
ReadVec(p, pos) ==
    LET n == ReadU(p, pos)
    IN  [items |-> SubSeq(p, n.next, n.next + n.value - 1), next |-> n.next + n.value]

\* entries of a type section payload: <<param type bytes, result type bytes>>;
\* form is the 0x60 byte each entry starts with
RECURSIVE ReadTypes(_, _, _)
ReadTypes(p, pos, n) ==
    IF n = 0 THEN << >>
    ELSE LET ps == ReadVec(p, pos + 1)
             rs == ReadVec(p, ps.next)
         IN  <<[form |-> p[pos], params |-> ps.items, results |-> rs.items]>>
             \o ReadTypes(p, rs.next, n - 1)

DecodedTypes(bytes) ==
    LET p == PayloadOf(bytes, 1)
    IN  IF p = << >> THEN << >> ELSE ReadTypes(p, ReadU(p, 1).next, ReadU(p, 1).value)

RECURSIVE ReadUs(_, _, _)
ReadUs(p, pos, n) ==
    IF n = 0 THEN << >>
    ELSE <<ReadU(p, pos).value>> \o ReadUs(p, ReadU(p, pos).next, n - 1)

\* the type indices of a function section payload
DecodedTypeIndices(bytes) ==
    LET p == PayloadOf(bytes, 3)
    IN  IF p = << >> THEN << >> ELSE ReadUs(p, ReadU(p, 1).next, ReadU(p, 1).value)

\* the binary type code of a value type
TypeCode(t) ==
    CASE t = "i32" -> 127 [] t = "i64" -> 126 [] t = "f32" -> 125 [] t = "f64" -> 124
      [] t = "v128" -> 123

RECURSIVE TypeCodes(_)
TypeCodes(decls) ==
    IF decls = << >> THEN << >> ELSE <<TypeCode(Head(decls).valueType)>> \o TypeCodes(Tail(decls))

\* the signature of a declared function as a type section entry
SignatureOf(f) == [form |-> 96, params |-> TypeCodes(f.params), results |-> TypeCodes(f.results)]

\* the signatures of the functions, each kept at its first occurrence only
RECURSIVE FirstOccurrences(_, _)
FirstOccurrences(functions, seen) ==
    IF functions = << >> THEN seen
    ELSE FirstOccurrences(Tail(functions),
                          IF \E i \in 1..Len(seen) : seen[i] = SignatureOf(Head(functions))
                          THEN seen
                          ELSE Append(seen, SignatureOf(Head(functions))))

\* C23: the Type section lists each distinct (param types, result types)
\* signature of the declared functions exactly once, in order of first
\* occurrence; the i-th type index of the Function section designates the
\* entry equal to the i-th function's signature, so two functions share a type
\* index if and only if their signatures are equal.
C23_TypeSection ==
    emPc = "done" =>
        LET fs    == FuncsOf(emIn)
            types == DecodedTypes(emOut.bytes)
            idx   == DecodedTypeIndices(emOut.bytes)
        IN  /\ emOut.ok
            /\ types = FirstOccurrences(fs, << >>)
            /\ \A i, j \in 1..Len(types) : types[i] = types[j] => i = j
            /\ Len(idx) = Len(fs)
            /\ \A i \in 1..Len(fs) :
                   /\ idx[i] + 1 \in 1..Len(types)
                   /\ types[idx[i] + 1] = SignatureOf(fs[i])
            /\ \A i, j \in 1..Len(fs) :
                   (idx[i] = idx[j]) <=> (SignatureOf(fs[i]) = SignatureOf(fs[j]))

\* three functions, the first and third of one signature: indices 0, 1, 0
C23_Witness ==
    /\ emPc = "done" /\ emOut.ok
    /\ Len(FuncsOf(emIn)) = 3
    /\ DecodedTypeIndices(emOut.bytes) = <<0, 1, 0>>
    /\ Len(DecodedTypes(emOut.bytes)) = 2
    /\ SignatureOf(FuncsOf(emIn)[1]) = [form |-> 96, params |-> <<127, 124>>, results |-> <<127>>]

-----------------------------------------------------------------------------
(* Local indices against the declared slots of the emitted function *)

\* most params and most locals of a generated function
LocMaxParams == 2
LocMaxLocals == 3

LocTypes == {"i32", "f64"}

LocKinds == {"get", "set", "tee"}

\* declarations named prefix1, prefix2, ... of the given types; the one at
\* position skip has no name
RECURSIVE LocDecls(_, _, _, _, _)
LocDecls(isParam, types, prefix, k, skip) ==
    IF k > Len(types) THEN << >>
    ELSE LET name == IF k = skip THEN "" ELSE prefix \o DigitChars[k + 1]
         IN  <<IF isParam THEN param(name, types[k]) ELSE local(name, types[k])>>
             \o LocDecls(isParam, types, prefix, k + 1, skip)

\* one well-typed access of the named variable
LocAccess(kind, name) ==
    CASE kind = "get" -> drop(localGet(name))
      [] kind = "set" -> localSet(name, localGet(name))
      [] kind = "tee" -> drop(localTee(name, localGet(name)))

RECURSIVE LocAccesses(_, _)
LocAccesses(kind, decls) ==
    IF decls = << >> THEN << >>
    ELSE (IF Head(decls).name # "" THEN <<LocAccess(kind, Head(decls).name)>> ELSE << >>)
         \o LocAccesses(kind, Tail(decls))

\* the function under test, after another function of a different signature
\* when withOther
LocModule(ptypes, ltypes, skipParam, skipLocal, kind, withOther) ==
    LET ps == LocDecls(TRUE, ptypes, "p", 1, skipParam)
        ls == LocDecls(FALSE, ltypes, "x", 1, skipLocal)
    IN  module("m",
               (IF withOther
                THEN <<func("$_g", <<param("q", "f64"), param("r", "f64"), param("s", "i32")>>,
                            << >>, << >>, << >>)>>
                ELSE << >>)
               \o <<func("$_f", ps, << >>, ls, LocAccesses(kind, ps \o ls))>>)

LocInit ==
    /\ \E ptypes \in SeqsUpTo(LocTypes, LocMaxParams), ltypes \in SeqsUpTo(LocTypes, LocMaxLocals),
          kind \in LocKinds, withOther \in BOOLEAN :
           \E skipParam \in 0..Len(ptypes), skipLocal \in 0..Len(ltypes) :
               emIn = LocModule(ptypes, ltypes, skipParam, skipLocal, kind, withOther)
    /\ emOut = NoOutput
    /\ emPc = "init"
    /\ OptIdle /\ LpIdle /\ VecIdle /\ FnIdle /\ PoolIdle /\ ExIdle /\ ExtIdle

LocNext == Emit

SpecLocals == LocInit /\ [][LocNext]_vars

\* the local entries of an emitted body, each (count, type) entry expanded
\* into count slots
RECURSIVE ExpandLocals(_, _, _)
ExpandLocals(body, pos, n) ==
    IF n = 0 THEN << >>
    ELSE LET count == ReadU(body, pos)
         IN  Repeat(body[count.next], count.value)
             \o ExpandLocals(body, count.next + 1, n - 1)

\* the slot types of the last function of an emitted module: the params of
\* the type its Function section entry designates, then the expanded locals
SlotTypes(bytes) ==
    LET bodies == DecodedBodies(bytes)
        body   == bodies[Len(bodies)]
        idx    == DecodedTypeIndices(bytes)
    IN  DecodedTypes(bytes)[idx[Len(idx)] + 1].params
        \o ExpandLocals(body, ReadU(body, 1).next, ReadU(body, 1).value)

\* the index immediates of local.get (32), local.set (33) and local.tee (34),
\* in order
LocalImms(bytes) ==
    LET bodies == DecodedBodies(bytes)
        body   == bodies[Len(bodies)]
    IN  Disassemble(body, CodeStart(body))

\* the declarations a body of LocAccesses reads, one per local instruction
RECURSIVE AccessedDecls(_, _)
AccessedDecls(kind, decls) ==
    IF decls = << >> THEN << >>
    ELSE (IF Head(decls).name = "" THEN << >>
          ELSE IF kind = "get" THEN <<Head(decls)>>
          ELSE <<Head(decls), Head(decls)>>)
         \o AccessedDecls(kind, Tail(decls))

\* the instruction kind of the accesses of a generated function
KindOf(f) ==
    IF f.children = << >> THEN "get"
    ELSE IF f.children[1].type = "local.set" THEN "set"
    ELSE IF f.children[1].children[1].type = "local.tee" THEN "tee"
    ELSE "get"

\* C24: for every function with distinct param and local names, the index
\* emitted for local.get / local.set / local.tee of a named param or local
\* designates, in the emitted function (the signature's params followed by the
\* expansion of the run-length-compressed local entries), a slot whose type is
\* that param's or local's declared valueType.
C24_LocalIndexType ==
    emPc = "done" =>
        LET fs    == FuncsOf(emIn)
            f     == fs[Len(fs)]
            decls == AccessedDecls(KindOf(f), f.params \o f.locals)
            imms  == LocalImms(emOut.bytes)
            slots == SlotTypes(emOut.bytes)
        IN  /\ emOut.ok
            /\ Len(slots) = Len(f.params) + Len(f.locals)
            /\ Len(imms) = Len(decls)
            /\ \A i \in 1..Len(imms) :
                   /\ imms[i].op \in {32, 33, 34}
                   /\ imms[i].imm + 1 \in 1..Len(slots)
                   /\ slots[imms[i].imm + 1] = TypeCode(decls[i].valueType)

\* params (i32, f64) and locals (f64, f64, i32) compressed into two entries;
\* the local.set of the last local carries index 4
C24_Witness ==
    /\ emPc = "done" /\ emOut.ok
    /\ SlotTypes(emOut.bytes) = <<127, 124, 124, 124, 127>>
    /\ Len(FuncsOf(emIn)) = 2
    /\ LocalImms(emOut.bytes) # << >>
    /\ LocalImms(emOut.bytes)[Len(LocalImms(emOut.bytes))] = [op |-> 33, imm |-> 4]
    /\ ReadU(DecodedBodies(emOut.bytes)[2], 1).value = 2

-----------------------------------------------------------------------------
(* autoVectorize followed by emitBinary: the operations the vectorizer names *)

\* the scalar operations SIMD_OP_MAP has an entry for
VoScalarOps == {e[1] : e \in SIMD_OP_MAP}

VoOperands(type) == {localGet("p"), constVal(type, 1), memOp(type \o ".load", 0, 2, <<localGet("p")>>)}

\* one statement using the operation: i32.not takes one operand, the others two
VoStmt(op, a, b) == drop(IF op = "i32.not" THEN un(op, a) ELSE bin(op, a, b))

VoInit ==
    /\ \E op \in VoScalarOps, type \in {"i32", "f32"} :
          \E a \in VoOperands(type), b \in VoOperands(type), stored \in BOOLEAN :
              vecIn = func("map", <<param("p", "i32")>>, << >>, << >>,
                           IF stored
                           THEN <<memOp(type \o ".store", 0, 2,
                                        <<localGet("p"), VoStmt(op, a, b).children[1]>>)>>
                           ELSE <<VoStmt(op, a, b)>>)
    /\ vecType \in {"", "f32", "i32"}
    /\ vecSimd = TRUE
    /\ vecOut = [func |-> Blank, width |-> 0, success |-> FALSE]
    /\ vecPc = "init"
    /\ OptIdle /\ LpIdle /\ EmIdle /\ FnIdle /\ PoolIdle /\ ExIdle /\ ExtIdle

VoNext == VecRun \/ VeEmit

SpecVecOps == VoInit /\ [][VoNext]_vars

\* the operation names of a tree
RECURSIVE OpsIn(_)
OpsIn(nodes) ==
    UNION {{OpOf(nodes[k])} \cup OpsIn(nodes[k].children) : k \in 1..Len(nodes)}

\* C25: every operation name autoVectorize can place in its output has an
\* entry in the emitter's opcode table, so a function returned with
\* success = true never makes emitBinary fail with "Unknown opcode" on a node
\* the vectorizer rewrote (the scalar function itself being one emitBinary
\* accepts).
C25_VectorOpsHaveOpcodes ==
    (emPc = "done" /\ vecOut.success /\ emitBinary(module("m", <<vecIn>>)).ok) =>
        emOut.err # "Unknown opcode"

\* what holds: the emission fails exactly when the output holds v128.and,
\* v128.or, v128.xor or v128.not, the four targets of SIMD_OP_MAP that
\* OPCODES has no entry for
C25_OnlyBitwiseMissing ==
    (emPc = "done" /\ vecOut.success /\ emitBinary(module("m", <<vecIn>>)).ok) =>
        /\ (emOut.err = "Unknown opcode") <=>
               (OpsIn(vecOut.func.children) \cap {"v128.and", "v128.or", "v128.xor", "v128.not"} # {})
        /\ OpsIn(vecOut.func.children) \ OpsIn(vecIn.children)
               \subseteq OpcodeKeys \cup {"v128.and", "v128.or", "v128.xor", "v128.not"}

-----------------------------------------------------------------------------
(* optimize on expressions whose operands have side effects *)

\* a block that yields a value after the statement s
ValueBlock(s) == [block("v", <<s, localGet("i")>>) EXCEPT !.valueType = "i32"]

\* operands with a side effect, and one without
FxOperands ==
    {call("g", << >>), localTee("i", i32Const(2)), memoryGrow(i32Const(1)),
     ValueBlock(localSet("i", i32Const(2))), ValueBlock(globalSet("g0", i32Const(2))),
     ValueBlock(i32Store(localGet("i"), i32Const(2))),
     localGet("i")}

FxOps == {"i32.add", "i32.sub", "i32.mul", "i32.shl"}

FxConsts == {0, 1, 2}

FxNests == {"none", "sum", "product"}

\* op applied to the operand and a constant, in either order, alone or as an
\* operand of a further operation
FxExpr(op, x, c, constFirst, nest) ==
    LET e == IF constFirst THEN bin(op, i32Const(c), x) ELSE bin(op, x, i32Const(c))
    IN  CASE nest = "none"    -> e
          [] nest = "sum"     -> bin("i32.add", localGet("i"), e)
          [] nest = "product" -> bin("i32.mul", e, i32Const(0))

FxInit ==
    /\ \E op \in FxOps, x \in FxOperands, c \in FxConsts, constFirst \in BOOLEAN,
          nest \in FxNests :
           optIn = ExprFunc(FxExpr(op, x, c, constFirst, nest))
    /\ optLevel \in 1..3
    /\ optFactor = 0
    /\ optOut = Blank
    /\ optOut2 = Blank
    /\ optPc = "init"
    /\ LpIdle /\ EmIdle /\ VecIdle /\ FnIdle /\ PoolIdle /\ ExIdle /\ ExtIdle

FxNext == OptRun \/ OptRerun

SpecEffects == FxInit /\ [][FxNext]_vars

EffectTypes == {"call", "local.set", "local.tee", "global.set", "memory.grow"}

IsEffect(node) == node.type \in EffectTypes \/ Includes(node.type, ".store")

\* the side-effecting nodes of a tree, operands before the operation
RECURSIVE Effects(_)
Effects(nodes) ==
    IF nodes = << >> THEN << >>
    ELSE Effects(Head(nodes).children)
         \o (IF IsEffect(Head(nodes)) THEN <<[type |-> Head(nodes).type, name |-> Head(nodes).name]>>
             ELSE << >>)
         \o Effects(Tail(nodes))

\* C26: the peephole and constant-folding rewrites of optimize never discard
\* an operand subtree that contains a side-effecting node (call, local.set,
\* local.tee, global.set, a store, memory.grow); i32.mul(x, const 0) and
\* i32.mul(const 0, x) become const 0 only when x contains no such node.
C26_EffectsKept ==
    optPc # "init" => Effects(<<optOut>>) = Effects(<<optIn>>)

\* an i32.mul with a constant 0 operand somewhere in the tree
RECURSIVE HasMulZero(_)
HasMulZero(nodes) ==
    \E k \in 1..Len(nodes) :
        \/ /\ OpOf(nodes[k]) = "i32.mul" /\ Len(nodes[k].children) = 2
           /\ (isConst(nodes[k].children[1], 0) \/ isConst(nodes[k].children[2], 0))
        \/ HasMulZero(nodes[k].children)

\* what holds: the side effects are all kept when no i32.mul has a constant 0
\* operand; at level 1 (folding only) they are always kept
C26_EffectsKeptWithoutMulZero ==
    (optPc # "init" /\ (optLevel = 1 \/ ~HasMulZero(<<optIn>>))) =>
        Effects(<<optOut>>) = Effects(<<optIn>>)

-----------------------------------------------------------------------------
(* Constant folding on the full i32 range                                    *)
(*                                                                           *)
(* A JavaScript number n (an integer here) is the pair <<hi, lo>> with       *)
(* n = hi * 2^16 + lo and 0 <= lo < 2^16, so that sums and differences of    *)
(* i32 values, which leave the i32 range, stay exact.                        *)

NumNorm(hi, lo) == <<hi + lo \div 65536, lo % 65536>>
NumOf(v) == NumNorm(0, v)
NumAdd(a, b) == NumNorm(a[1] + b[1], a[2] + b[2])
NumSub(a, b) == NumNorm(a[1] - b[1], a[2] - b[2])
NumNeg(a) == NumNorm(-a[1], -a[2])
NumLess(a, b) == a[1] < b[1] \/ (a[1] = b[1] /\ a[2] < b[2])
NumZero == <<0, 0>>

\* ToInt32: the number modulo 2^32, as a value in [-2^31, 2^31)
NumToInt32(a) == (((a[1] + 32768) % 65536) - 32768) * 65536 + a[2]

\* the unsigned 16-bit halves of an int32
UHi(v) == (v \div 65536) % 65536
ULo(v) == v % 65536

\* x * y of two 16-bit halves, as a number
MulHalves(x, y) ==
    LET t1 == (x \div 256) * y
        t2 == (x % 256) * y
    IN  NumNorm(t1 \div 256, (t1 % 256) * 256 + t2)

\* the low 32 bits of the product of two 32-bit values given by their halves
ImulHalves(ahi, alo, bhi, blo) ==
    LET p0 == MulHalves(alo, blo)
    IN  NumToInt32(<<p0[1] + MulHalves(ahi, blo)[2] + MulHalves(alo, bhi)[2], p0[2]>>)

\* Math.imul(a, b)
Imul(a, b) == ImulHalves(UHi(a), ULo(a), UHi(b), ULo(b))

\* a << k and a >> k of int32 a, 0 <= k < 32
Shl32(a, k) ==
    ImulHalves(UHi(a), ULo(a), IF k >= 16 THEN Pow2(k - 16) ELSE 0, IF k < 16 THEN Pow2(k) ELSE 0)
ShrS32(a, k) == IF k = 31 THEN (IF a < 0 THEN -1 ELSE 0) ELSE a \div Pow2(k)

\* a * k for a small factor k >= 0
NumScale(a, k) == NumNorm(a[1] * k, a[2] * k)

\* quotient and remainder of two numbers n >= 0, d > 0, one base-16 digit of
\* the quotient per level
RECURSIVE DivMag(_, _)
DivMag(n, d) ==
    IF NumLess(n, d) THEN [q |-> NumZero, r |-> n]
    ELSE LET h     == DivMag(n, NumScale(d, 16))
             digit == CHOOSE k \in 0..15 :
                          ~NumLess(h.r, NumScale(d, k)) /\ NumLess(h.r, NumScale(d, k + 1))
         IN  [q |-> NumAdd(NumScale(h.q, 16), <<0, digit>>),
              r |-> NumSub(h.r, NumScale(d, digit))]

\* l / r truncated toward zero (the quotient of two integers below 2^53 in
\* magnitude is never rounded across an integer)
NumDivTrunc(l, r) ==
    LET al == IF NumLess(l, NumZero) THEN NumNeg(l) ELSE l
        ar == IF NumLess(r, NumZero) THEN NumNeg(r) ELSE r
        q  == DivMag(al, ar).q
    IN  IF NumLess(l, NumZero) = NumLess(r, NumZero) THEN q ELSE NumNeg(q)

\* the i32 cases of constantFoldingPass on two const children: whether the
\* node is replaced, and the value of the new const
foldI32(op, lVal, rVal) ==
    CASE op = "i32.add" -> [folded |-> TRUE, value |-> NumAdd(lVal, rVal)]
      [] op = "i32.sub" -> [folded |-> TRUE, value |-> NumSub(lVal, rVal)]
      [] op = "i32.mul" ->
             [folded |-> TRUE, value |-> NumOf(Imul(NumToInt32(lVal), NumToInt32(rVal)))]
      [] op = "i32.div_s" /\ rVal # NumZero ->
             [folded |-> TRUE, value |-> NumOf(NumToInt32(NumDivTrunc(lVal, rVal)))]
      [] op = "i32.shl" ->
             [folded |-> TRUE, value |-> NumOf(Shl32(NumToInt32(lVal), NumToInt32(rVal) % 32))]
      [] op = "i32.shr_s" ->
             [folded |-> TRUE, value |-> NumOf(ShrS32(NumToInt32(lVal), NumToInt32(rVal) % 32))]
      [] OTHER -> [folded |-> FALSE, value |-> NumZero]

\* runPass(constantFoldingPass) on op2(op1(a, b), c), or on op2(c, op1(a, b))
\* when constFirst: the inner node first; the outer one is folded only when
\* the inner one became a const
foldNested(op1, op2, a, b, c, constFirst) ==
    LET inner == foldI32(op1, NumOf(a), NumOf(b))
        outer == IF ~inner.folded THEN [folded |-> FALSE, value |-> NumZero]
                 ELSE IF constFirst THEN foldI32(op2, NumOf(c), inner.value)
                 ELSE foldI32(op2, inner.value, NumOf(c))
    IN  [inner |-> inner, outer |-> outer]

FoldOps == {"i32.add", "i32.sub", "i32.mul", "i32.div_s", "i32.shl", "i32.shr_s"}

\* i32 constants: the ends of the range, small values, a shift count above 31
FoldConsts == {-2147483647 - 1, -1, 0, 1, 2, 33, 2147483647}

FoldInit ==
    /\ \E op1 \in FoldOps, op2 \in FoldOps, a \in FoldConsts, b \in FoldConsts,
          c \in FoldConsts, constFirst \in BOOLEAN :
           fnIn = <<op1, op2, a, b, c, constFirst>>
    /\ fnOut = << >>
    /\ fnPc = "init"
    /\ DslIdle /\ PoolIdle /\ ExIdle /\ ExtIdle

FoldCall ==
    /\ fnPc = "init"
    /\ fnOut' = <<foldNested(fnIn[1], fnIn[2], fnIn[3], fnIn[4], fnIn[5], fnIn[6])>>
    /\ fnPc' = "done"
    /\ UNCHANGED <<fnIn, dslVars, poolVars, exVars, extVars>>

FoldNext == FoldCall

SpecFold == FoldInit /\ [][FoldNext]_vars

\* WebAssembly's i32 operations on two i32 values: a trap, or the value
WrapAdd(a, b) == NumToInt32(NumAdd(NumOf(a), NumOf(b)))
WrapSub(a, b) == NumToInt32(NumSub(NumOf(a), NumOf(b)))

\* a * s modulo 2^32 for 0 <= s < 256
MulByte(a, s) == NumToInt32(NumNorm(UHi(a) * s, ULo(a) * s))

\* a * 2^k modulo 2^32, 0 <= k < 32: the low 32 - k bits of a, signed, moved up
WasmShl(a, k) ==
    IF k = 0 THEN a
    ELSE IF k = 31 THEN (IF a % 2 = 1 THEN -2147483647 - 1 ELSE 0)
    ELSE LET p   == Pow2(31 - k)
             low == a % p
             bit == (a \div p) % 2
         IN  (low - bit * p) * Pow2(k)

\* a * b modulo 2^32, byte by byte of b
WrapMul(a, b) ==
    WrapAdd(WrapAdd(MulByte(a, b % 256), WasmShl(MulByte(a, (b \div 256) % 256), 8)),
            WrapAdd(WasmShl(MulByte(a, (b \div 65536) % 256), 16),
                    WasmShl(MulByte(a, (b \div 16777216) % 256), 24)))

WasmDivS(a, b) ==
    IF b = 0 \/ (a = -2147483647 - 1 /\ b = -1) THEN [trap |-> TRUE, value |-> 0]
    ELSE IF b = -2147483647 - 1 THEN [trap |-> FALSE, value |-> IF a = b THEN 1 ELSE 0]
    ELSE LET d == IF b < 0 THEN -b ELSE b
             q == a \div d
             t == IF a < 0 /\ a % d # 0 THEN q + 1 ELSE q
         IN  [trap |-> FALSE, value |-> IF b < 0 THEN -t ELSE t]

WasmI32(op, a, b) ==
    CASE op = "i32.add" -> [trap |-> FALSE, value |-> WrapAdd(a, b)]
      [] op = "i32.sub" -> [trap |-> FALSE, value |-> WrapSub(a, b)]
      [] op = "i32.mul" -> [trap |-> FALSE, value |-> WrapMul(a, b)]
      [] op = "i32.div_s" -> WasmDivS(a, b)
      [] op = "i32.shl" -> [trap |-> FALSE, value |-> WasmShl(a, b % 32)]
      [] op = "i32.shr_s" ->
             [trap |-> FALSE,
              value |-> IF b % 32 = 31 THEN (IF a < 0 THEN -1 ELSE 0) ELSE a \div Pow2(b % 32)]

\* the unfolded expression evaluated at run time
WasmNested(op1, op2, a, b, c, constFirst) ==
    LET inner == WasmI32(op1, a, b)
        outer == IF inner.trap THEN inner
                 ELSE IF constFirst THEN WasmI32(op2, c, inner.value)
                 ELSE WasmI32(op2, inner.value, c)
    IN  [inner |-> inner, outer |-> outer]

NumInI32(n) == n[1] \in -32768..32767

\* a folded const agrees with the run-time result: in range, no trap, equal
Agrees(f, w) == f.folded => (NumInI32(f.value) /\ ~w.trap /\ f.value = NumOf(w.value))

\* C27: constant folding of i32.add, i32.sub, i32.mul, i32.div_s, i32.shl and
\* i32.shr_s over i32 constants yields a const whose value lies in
\* [-2^31, 2^31) and equals the result of WebAssembly's 32-bit
\* two's-complement operation, so folding a nested constant expression
\* bottom-up gives the same i32 value as evaluating the unfolded expression at
\* run time.
C27_FoldMatchesWasm ==
    fnPc = "done" =>
        LET w == WasmNested(fnIn[1], fnIn[2], fnIn[3], fnIn[4], fnIn[5], fnIn[6])
        IN  /\ Agrees(fnOut[1].inner, w.inner)
            /\ Agrees(fnOut[1].outer, w.outer)

\* what holds for one operation on two i32 constants: the folded value is the
\* run-time result modulo 2^32 whenever the operation does not trap, and it is
\* in range for every operation but i32.add and i32.sub
C27_FoldMatchesModulo ==
    fnPc = "done" =>
        LET f == fnOut[1].inner
            w == WasmI32(fnIn[1], fnIn[3], fnIn[4])
        IN  /\ (f.folded /\ ~w.trap) => NumToInt32(f.value) = w.value
            /\ (f.folded /\ fnIn[1] \notin {"i32.add", "i32.sub"}) => NumInI32(f.value)
            /\ ~f.folded <=> (fnIn[1] = "i32.div_s" /\ fnIn[4] = 0)

-----------------------------------------------------------------------------
(* compileWasm and the module cache: src/src/runtime/sab.ts                  *)
(*                                                                           *)
(* A WebAssembly.Module is identified with the bytes it was compiled from.   *)
(* The timestamp of a cache entry is not modelled: nothing reads it.         *)

\* most compileWasm calls of a behaviour
CcMaxCalls == 3

CACHE_LIMIT == 100

\* String(n) of a non-negative integer
RECURSIVE Str(_)
Str(n) == IF n < 10 THEN DigitChars[n + 1] ELSE Str(n \div 10) \o DigitChars[(n % 10) + 1]

\* the Map wasmModuleCache as its entries in insertion order; set on a key
\* already present keeps the key's position
CacheHas(cache, key) == \E i \in 1..Len(cache) : cache[i].key = key
CacheGet(cache, key) == cache[CHOOSE i \in 1..Len(cache) : cache[i].key = key]
CacheSet(cache, key, entry) ==
    IF CacheHas(cache, key)
    THEN [i \in 1..Len(cache) |-> IF cache[i].key = key THEN entry ELSE cache[i]]
    ELSE Append(cache, entry)

\* cached.hits++ on the entry of the key
CacheHit(cache, key) ==
    [i \in 1..Len(cache) |-> IF cache[i].key = key THEN [cache[i] EXCEPT !.hits = @ + 1]
                             ELSE cache[i]]

\* pruneCache: at the limit, the first inserted key is deleted
pruneCache(cache) == IF Len(cache) < CACHE_LIMIT THEN cache ELSE Tail(cache)

\* the cache key compileWasm derives when options.cacheKey is absent; "" is
\* no key
BinaryKey(binary) ==
    LET len == Len(binary)
    IN  IF len > 0
        THEN "bin_" \o Str(len) \o "_" \o Str(binary[1]) \o "_"
                 \o Str(binary[(len \div 2) + 1]) \o "_" \o Str(binary[len])
        ELSE "bin_empty"

AstKey(source) == IF source.name # "" THEN "ast_" \o source.name ELSE ""

\* the sources passed: ModuleNodes, two of them with one name and different
\* bodies, one without a name, and the binary of one of them
CcModule(name, stmt) == module(name, <<func("f", << >>, << >>, << >>, <<stmt>>)>>)

CcSources ==
    {[kind |-> "ast", node |-> CcModule(name, stmt), bytes |-> << >>] :
         name \in {"m", "k", ""}, stmt \in {nop, unreachable}}
    \cup {[kind |-> "bin", node |-> Blank, bytes |-> emitBinary(CcModule("m", nop)).bytes]}

CacheInit ==
    /\ wasmModuleCache = << >>
    /\ ccPending = << >>
    /\ ccReturned = << >>
    /\ DslIdle /\ FnIdle /\ PoolIdle /\ ExIdle /\ HotIdle /\ AbIdle

\* what a call hands back: the module, for which source, whether it came from
\* the cache
Returned(source, mod, cached) == [source |-> source, module |-> mod, cached |-> cached]

\* compileWasm(source, {enableCaching}) up to its await: a cache hit returns
\* at once; otherwise the call waits for WebAssembly.compile(binary)
compileWasm(source, enableCaching) ==
    LET cacheKey == IF ~enableCaching THEN ""
                    ELSE IF source.kind = "bin" THEN BinaryKey(source.bytes)
                    ELSE AstKey(source.node)
        hit      == enableCaching /\ cacheKey # "" /\ CacheHas(wasmModuleCache, cacheKey)
        binary   == IF source.kind = "bin" THEN source.bytes ELSE emitBinary(source.node).bytes
    IN  IF hit
        THEN /\ wasmModuleCache' = CacheHit(wasmModuleCache, cacheKey)
             /\ ccReturned' = Append(ccReturned,
                                     Returned(source, CacheGet(wasmModuleCache, cacheKey).module, TRUE))
             /\ UNCHANGED ccPending
        ELSE /\ ccPending' = Append(ccPending,
                                    [source |-> source, cacheKey |-> cacheKey,
                                     enableCaching |-> enableCaching, binary |-> binary])
             /\ UNCHANGED <<wasmModuleCache, ccReturned>>

CompileCall ==
    /\ Len(ccReturned) + Len(ccPending) < CcMaxCalls
    /\ \E source \in CcSources, enableCaching \in BOOLEAN : compileWasm(source, enableCaching)
    /\ UNCHANGED <<dslVars, fnVars, poolVars, exVars, hotVars, abVars>>

\* the rest of compileWasm once WebAssembly.compile has resolved, for any of
\* the waiting calls: the cache is pruned and updated, the module returned
CompileSettle ==
    \E i \in 1..Len(ccPending) :
        LET c   == ccPending[i]
            mod == c.binary
        IN  /\ ccPending' = SubSeq(ccPending, 1, i - 1) \o SubSeq(ccPending, i + 1, Len(ccPending))
            /\ wasmModuleCache' =
                   IF c.enableCaching /\ c.cacheKey # ""
                   THEN CacheSet(pruneCache(wasmModuleCache), c.cacheKey,
                                 [key |-> c.cacheKey, module |-> mod, hits |-> 1])
                   ELSE wasmModuleCache
            /\ ccReturned' = Append(ccReturned, Returned(c.source, mod, FALSE))
            /\ UNCHANGED <<dslVars, fnVars, poolVars, exVars, hotVars, abVars>>

\* clearWasmCache()
clearWasmCache ==
    /\ wasmModuleCache # << >>
    /\ wasmModuleCache' = << >>
    /\ UNCHANGED <<ccPending, ccReturned, dslVars, fnVars, poolVars, exVars, hotVars, abVars>>

CacheNext == CompileCall \/ CompileSettle \/ clearWasmCache

SpecCache == CacheInit /\ [][CacheNext]_vars

\* C28: for any sequence of compileWasm calls with caching enabled, the module
\* returned for a ModuleNode M is one compiled from the bytes emitBinary(M)
\* produces: a cached module is returned only for a source that emits the
\* same bytes as the source that populated that cache entry.
C28_ModuleFromOwnBytes ==
    \A i \in 1..Len(ccReturned) :
        ccReturned[i].source.kind = "ast" =>
            ccReturned[i].module = emitBinary(ccReturned[i].source.node).bytes

\* what holds: a module that did not come from the cache is compiled from the
\* source's own bytes, and a cached one from the bytes of a ModuleNode of the
\* same name
C28_ModuleFromSameName ==
    \A i \in 1..Len(ccReturned) :
        LET r == ccReturned[i]
        IN  r.source.kind = "ast" =>
                /\ ~r.cached => r.module = emitBinary(r.source.node).bytes
                /\ r.cached =>
                       /\ r.source.node.name # ""
                       /\ \E s \in CcSources :
                              /\ s.kind = "ast" /\ s.node.name = r.source.node.name
                              /\ r.module = emitBinary(s.node).bytes

-----------------------------------------------------------------------------
(* WorkerPool.exec called repeatedly on one pool: src/src/runtime/sab.ts     *)
(*                                                                           *)
(* The calls are made one after the other, each after the previous one has   *)
(* resolved.  A module is identified with the bytes it was compiled from, a  *)
(* memory by a name.  WebAssembly.instantiate is taken to succeed.           *)

\* most exec calls of a behaviour
HxMaxExecs == 2

HxMemories == {"memA", "memB"}
HxTotals == {1, MinChunk + 1}

\* the kernels passed: ModuleNodes, two of them with one name and different
\* bodies, and compiled WebAssembly.Modules
HxKernels ==
    {[kind |-> "ast", node |-> CcModule(name, stmt), bytes |-> << >>] :
         name \in {"k", "j"}, stmt \in {nop, unreachable}}
    \cup {[kind |-> "mod", node |-> Blank, bytes |-> emitBinary(CcModule("k", stmt)).bytes] :
              stmt \in {nop, unreachable}}

\* the module the kernel stands for
OwnModule(kernel) ==
    IF kernel.kind = "mod" THEN kernel.bytes ELSE emitBinary(kernel.node).bytes

\* (kernel as any).name || "unknown": a WebAssembly.Module has no name
ModuleId(kernel) ==
    IF kernel.kind = "ast" /\ kernel.node.name # "" THEN kernel.node.name ELSE "unknown"

\* await compileWasm(kernel) for a ModuleNode, start to end: the module
\* returned and the cache left
ExecCompile(kernel, cache) ==
    LET cacheKey == AstKey(kernel.node)
        binary   == emitBinary(kernel.node).bytes
    IN  IF cacheKey # "" /\ CacheHas(cache, cacheKey)
        THEN [module |-> CacheGet(cache, cacheKey).module, cache |-> CacheHit(cache, cacheKey)]
        ELSE [module |-> binary,
              cache  |-> IF cacheKey # ""
                         THEN CacheSet(pruneCache(cache), cacheKey,
                                       [key |-> cacheKey, module |-> binary, hits |-> 1])
                         ELSE cache]

NoInst == [mod |-> << >>, mem |-> ""]

HotInit ==
    /\ lastModuleId = ""
    /\ \E n \in 1..MaxWorkers : /\ wkSlots = [w \in 1..n |-> "idle"]
                                /\ wkInst = [w \in 1..n |-> NoInst]
    /\ syncView = 0 /\ hxExecs = << >> /\ hxRan = {} /\ hxPc = "idle"
    /\ DslIdle /\ FnIdle /\ PoolIdle /\ ExIdle /\ CacheIdle /\ AbIdle

HxCurrent == hxExecs[Len(hxExecs)]

\* exec(kernel, totalSize, memory) up to its first wait: CMD_INIT is posted to
\* every worker when the module id differs from the last one, and otherwise
\* the cursor is reset and CMD_RUN_ATOMIC posted at once
HxExec ==
    /\ hxPc = "idle"
    /\ Len(hxExecs) < HxMaxExecs
    /\ \E kernel \in HxKernels, memory \in HxMemories, totalSize \in HxTotals :
           LET compiled == IF kernel.kind = "mod"
                           THEN [module |-> kernel.bytes, cache |-> wasmModuleCache]
                           ELSE ExecCompile(kernel, wasmModuleCache)
               moduleId == ModuleId(kernel)
           IN  /\ wasmModuleCache' = compiled.cache
               /\ hxExecs' = Append(hxExecs,
                                    [kernel |-> kernel, moduleId |-> moduleId,
                                     module |-> compiled.module, memory |-> memory,
                                     total |-> totalSize,
                                     chunk |-> OptimalChunk(totalSize, Len(wkSlots))])
               /\ IF lastModuleId # moduleId
                  THEN /\ wkSlots' = [w \in DOMAIN wkSlots |-> "init"]
                       /\ hxPc' = "initialising"
                       /\ UNCHANGED syncView
                  ELSE /\ wkSlots' = [w \in DOMAIN wkSlots |-> "posted"]
                       /\ syncView' = 0
                       /\ hxPc' = "running"
    /\ UNCHANGED <<lastModuleId, wkInst, hxRan, ccPending, ccReturned,
                   dslVars, fnVars, poolVars, exVars, abVars>>

\* the worker handles CMD_INIT: it instantiates msg.mod on msg.mem, keeps the
\* instance, the memory and the entry function, and acknowledges
HxWorkerInit(w) ==
    /\ wkSlots[w] = "init"
    /\ wkInst' = [wkInst EXCEPT ![w] = [mod |-> HxCurrent.module, mem |-> HxCurrent.memory]]
    /\ wkSlots' = [wkSlots EXCEPT ![w] = "acked"]
    /\ UNCHANGED <<lastModuleId, syncView, hxExecs, hxRan, hxPc, cacheVars,
                   dslVars, fnVars, poolVars, exVars, abVars>>

\* Promise.all(initPromises) has resolved: the module id is remembered, the
\* cursor reset and CMD_RUN_ATOMIC posted to every worker
HxInitDone ==
    /\ hxPc = "initialising"
    /\ \A w \in DOMAIN wkSlots : wkSlots[w] = "acked"
    /\ lastModuleId' = HxCurrent.moduleId
    /\ syncView' = 0
    /\ wkSlots' = [w \in DOMAIN wkSlots |-> "posted"]
    /\ hxPc' = "running"
    /\ UNCHANGED <<wkInst, hxExecs, hxRan, cacheVars, dslVars, fnVars, poolVars, exVars, abVars>>

\* the worker receives CMD_RUN_ATOMIC; it has an instance by now
HxWorkerReceive(w) ==
    /\ wkSlots[w] = "posted"
    /\ wkInst[w] # NoInst
    /\ wkSlots' = [wkSlots EXCEPT ![w] = "running"]
    /\ UNCHANGED <<lastModuleId, wkInst, syncView, hxExecs, hxRan, hxPc, cacheVars,
                   dslVars, fnVars, poolVars, exVars, abVars>>

\* one iteration of the work stealing loop: func is the entry function the
\* worker kept at its last CMD_INIT, and it works on the memory kept then
HxWorkerStep(w) ==
    /\ wkSlots[w] = "running"
    /\ syncView' = AtomicsAdd32(syncView, HxCurrent.chunk)
    /\ IF syncView >= HxCurrent.total
       THEN /\ wkSlots' = [wkSlots EXCEPT ![w] = "done"]
            /\ UNCHANGED hxRan
       ELSE /\ hxRan' = hxRan \cup {[exec |-> Len(hxExecs), mod |-> wkInst[w].mod,
                                     mem |-> wkInst[w].mem]}
            /\ UNCHANGED wkSlots
    /\ UNCHANGED <<lastModuleId, wkInst, hxExecs, hxPc, cacheVars,
                   dslVars, fnVars, poolVars, exVars, abVars>>

\* Promise.all(runPromises) has resolved: exec returns
HxResolve ==
    /\ hxPc = "running"
    /\ \A w \in DOMAIN wkSlots : wkSlots[w] = "done"
    /\ wkSlots' = [w \in DOMAIN wkSlots |-> "idle"]
    /\ hxPc' = "idle"
    /\ UNCHANGED <<lastModuleId, wkInst, syncView, hxExecs, hxRan, cacheVars,
                   dslVars, fnVars, poolVars, exVars, abVars>>

HotNext ==
    \/ HxExec
    \/ \E w \in DOMAIN wkSlots : HxWorkerInit(w)
    \/ HxInitDone
    \/ \E w \in DOMAIN wkSlots : HxWorkerReceive(w)
    \/ \E w \in DOMAIN wkSlots : HxWorkerStep(w)
    \/ HxResolve

SpecHot == HotInit /\ [][HotNext]_vars

\* C29: in any sequence of WorkerPool.exec calls on one pool, every function
\* run during a call is the entry function of the module passed to that call
\* and works on the memory passed to that call: a later exec(B, ..., memB)
\* never runs A's function or touches memA.
C29_ExecRunsOwnModule ==
    \A r \in hxRan :
        /\ r.mod = OwnModule(hxExecs[r.exec].kernel)
        /\ r.mem = hxExecs[r.exec].memory

\* what holds: the function run and the memory used are those of a call made
\* so far with the same module id, and those of the call itself when it is the
\* first call or the previous call had another module id and the kernel was
\* not found in the module cache
C29_ExecRunsSameId ==
    \A r \in hxRan :
        LET this == hxExecs[r.exec]
        IN  /\ \E j \in 1..r.exec : /\ hxExecs[j].moduleId = this.moduleId
                                    /\ r.mod = OwnModule(hxExecs[j].kernel)
            /\ \E j \in 1..r.exec : /\ hxExecs[j].moduleId = this.moduleId
                                    /\ r.mem = hxExecs[j].memory
            /\ (r.exec = 1 \/ hxExecs[r.exec - 1].moduleId # this.moduleId) =>
                   /\ r.mem = this.memory
                   /\ r.mod = this.module

-----------------------------------------------------------------------------
(* MainThreadExecutor.run and abort on one executor:                         *)
(* src/src/runtime/executor.ts                                               *)
(*                                                                           *)
(* JavaScript runs one task at a time: a slice of a run, from its start or   *)
(* its resumption to its yield, is not interleaved with anything, and        *)
(* abort() and run() are called between slices.  abActive is the run that    *)
(* has the thread, 0 for none.  Compilation and instantiation are taken to   *)
(* succeed.                                                                  *)

\* most run() calls of a behaviour
AbMaxRuns == 2

AbTotals == {InitialStep + 1, 600}
AbDurations == {0, 50, 600}

AbInit ==
    /\ abOptions \in ExOptionSets
    /\ hasChannel \in BOOLEAN
    /\ isAborted = FALSE /\ abRuns = << >> /\ abActive = 0
    /\ onmessage = 0 /\ portQueue = 0
    /\ DslIdle /\ FnIdle /\ PoolIdle /\ ExIdle /\ CacheIdle /\ HotIdle

\* the run has neither completed nor returned on the flag
InProgress(run) == run.pc \notin {"done", "aborted"}

\* run(kernel, totalSize, memory) up to its first await: the flag is cleared.
\* For the runs in progress that abort() was called on, the flag they have
\* yet to read has been cleared.
AbRun ==
    /\ abActive = 0
    /\ Len(abRuns) < AbMaxRuns
    /\ isAborted' = FALSE
    /\ \E totalSize \in AbTotals :
           abRuns' = Append([r \in DOMAIN abRuns |->
                                 IF InProgress(abRuns[r]) /\ abRuns[r].abortedAt >= 0
                                 THEN [abRuns[r] EXCEPT !.cleared = TRUE]
                                 ELSE abRuns[r]],
                            [pc |-> "starting", total |-> totalSize, current |-> 0,
                             step |-> InitialStep,
                             currentSliceLimit |-> abOptions.baseSliceTime,
                             sliceDuration |-> 0, calls |-> 0,
                             abortedAt |-> -1, cleared |-> FALSE])
    /\ UNCHANGED <<abOptions, abActive, hasChannel, onmessage, portQueue,
                   dslVars, fnVars, poolVars, exVars, cacheVars, hotVars>>

\* abort(): the flag is set.  Each run in progress notes the number of calls
\* of the entry function it has made so far.
abort ==
    /\ abActive = 0
    /\ isAborted' = TRUE
    /\ abRuns' = [r \in DOMAIN abRuns |->
                      IF InProgress(abRuns[r]) /\ abRuns[r].abortedAt < 0
                      THEN [abRuns[r] EXCEPT !.abortedAt = abRuns[r].calls]
                      ELSE abRuns[r]]
    /\ UNCHANGED <<abOptions, abActive, hasChannel, onmessage, portQueue,
                   dslVars, fnVars, poolVars, exVars, cacheVars, hotVars>>

\* the module is compiled and instantiated: run goes on and enters
\* scheduleExecution
AbStart(r) ==
    /\ abActive = 0
    /\ abRuns[r].pc = "starting"
    /\ abRuns' = [abRuns EXCEPT ![r].pc = "outer"]
    /\ abActive' = r
    /\ UNCHANGED <<abOptions, isAborted, hasChannel, onmessage, portQueue,
                   dslVars, fnVars, poolVars, exVars, cacheVars, hotVars>>

\* the test of the outer loop, the test of the flag and the start of a slice
AbSlice(r) ==
    /\ abActive = r
    /\ abRuns[r].pc = "outer"
    /\ LET run == abRuns[r]
           pc  == IF run.current >= run.total THEN "done"
                  ELSE IF isAborted THEN "aborted"
                  ELSE "inner"
       IN  /\ abRuns' = [abRuns EXCEPT ![r].pc = pc, ![r].sliceDuration = 0]
           /\ abActive' = IF pc = "inner" THEN r ELSE 0
    /\ UNCHANGED <<abOptions, isAborted, hasChannel, onmessage, portQueue,
                   dslVars, fnVars, poolVars, exVars, cacheVars, hotVars>>

\* one iteration of the inner loop, as in ExIterate; leaving the inner loop
\* with work left calls yieldToMain, which with a MessageChannel installs the
\* resolver of this run as port1.onmessage and posts a message
AbIterate(r) ==
    /\ abActive = r
    /\ abRuns[r].pc = "inner"
    /\ \E d \in AbDurations, pending \in BOOLEAN :
          LET run     == abRuns[r]
              end     == RangeEnd(run.current, run.step, run.total)
              over    == d >= run.currentSliceLimit
              extend  == over /\ ~pending /\ d < abOptions.maxContinuousTime
              break   == over /\ ~extend
              limit   == IF extend
                         THEN Min(run.currentSliceLimit + SliceExtension,
                                  abOptions.maxContinuousTime)
                         ELSE run.currentSliceLimit
              yields  == end < run.total /\ break
              pc      == IF end >= run.total THEN "done"
                         ELSE IF break THEN "yielded" ELSE "inner"
          IN  /\ d >= run.sliceDuration
              /\ abRuns' = [abRuns EXCEPT ![r] =
                     [run EXCEPT !.calls = run.calls + 1,
                                 !.current = end,
                                 !.sliceDuration = d,
                                 !.step = IF break THEN run.step
                                          ELSE AdjustedStep(run.step, d, run.total, end),
                                 !.currentSliceLimit =
                                     IF yields THEN abOptions.baseSliceTime ELSE limit,
                                 !.pc = pc]]
              /\ abActive' = IF pc = "inner" THEN r ELSE 0
              /\ IF yields /\ hasChannel
                 THEN onmessage' = r /\ portQueue' = portQueue + 1
                 ELSE UNCHANGED <<onmessage, portQueue>>
    /\ UNCHANGED <<abOptions, isAborted, hasChannel,
                   dslVars, fnVars, poolVars, exVars, cacheVars, hotVars>>

\* yieldToMain without MessageChannel: the timer of the run fires
AbTimeout(r) ==
    /\ ~hasChannel
    /\ abActive = 0
    /\ abRuns[r].pc = "yielded"
    /\ abRuns' = [abRuns EXCEPT ![r].pc = "outer"]
    /\ abActive' = r
    /\ UNCHANGED <<abOptions, isAborted, hasChannel, onmessage, portQueue,
                   dslVars, fnVars, poolVars, exVars, cacheVars, hotVars>>

\* yieldToMain with the one MessageChannel: a message arrives at port1 and
\* the handler installed last resolves its promise
AbMessage ==
    /\ hasChannel
    /\ abActive = 0
    /\ portQueue > 0
    /\ portQueue' = portQueue - 1
    /\ IF abRuns[onmessage].pc = "yielded"
       THEN /\ abRuns' = [abRuns EXCEPT ![onmessage].pc = "outer"]
            /\ abActive' = onmessage
       ELSE UNCHANGED <<abRuns, abActive>>
    /\ UNCHANGED <<abOptions, isAborted, hasChannel, onmessage,
                   dslVars, fnVars, poolVars, exVars, cacheVars, hotVars>>

AbNext ==
    \/ AbRun
    \/ abort
    \/ \E r \in DOMAIN abRuns : AbStart(r)
    \/ \E r \in DOMAIN abRuns : AbSlice(r)
    \/ \E r \in DOMAIN abRuns : AbIterate(r)
    \/ \E r \in DOMAIN abRuns : AbTimeout(r)
    \/ AbMessage

SpecAbort == AbInit /\ [][AbNext]_vars

\* C30: once abort() has been called while a run is in progress, that run
\* invokes the entry function no more (abort() is called between slices, so
\* no slice is executing), for every interleaving of abort() and further
\* run() calls on the same executor with the run's yields.
C30_AbortedRunStops ==
    \A r \in DOMAIN abRuns :
        abRuns[r].abortedAt >= 0 => abRuns[r].calls = abRuns[r].abortedAt

\* what holds: the run invokes the entry function no more unless run() was
\* called again after the abort() and before the run read the flag
C30_AbortedRunStopsUnlessRerun ==
    \A r \in DOMAIN abRuns :
        (abRuns[r].abortedAt >= 0 /\ ~abRuns[r].cleared) =>
            abRuns[r].calls = abRuns[r].abortedAt

=============================================================================
